---- MODULE Spec2Model ----
(***************************************************************************)
(* sidecar: a daemon that spawns programs for clients connecting over a    *)
(* UNIX SOCK_SEQPACKET socket.  This module models the server's            *)
(* per-connection task (server.rs), the SIGCHLD child watcher              *)
(* (child_watcher.rs), the child builder (child.rs) and the client's wait  *)
(* loop (client.rs).                                                       *)
(***************************************************************************)
EXTENDS Integers, Sequences, FiniteSets, TLC

(***************************************************************************)
(* Bounds of the model.                                                    *)
(***************************************************************************)
\* Signal datagrams the client may send while the child runs
MaxSignals == 1
\* client datagrams that may be in flight on one connection
MaxInbox == 1
\* largest exit code of the wait-status domain
MaxExitCode == 40
\* stop commands run against one server
MaxStops == 2
\* entries of a request's env list
MaxEnv == 2
MaxBurst == 2
MaxEintr == 1

(***************************************************************************)
(* Program constants.                                                      *)
(***************************************************************************)
SIGINT == 2
SIGKILL == 9
SIGTERM == 15
SIGTSTP == 20
\* child_watcher.rs: MSG_SIZE = size_of::<i32>()
MSG_SIZE == 4
\* server.rs: fdbuf = [-1; 3]
FDBUF_LEN == 3
\* nix Signal::from_c_int accepts 1..31 on Linux
MaxSignal == 31

Conns == {1, 2}

\* messages.rs: bitflags StartMode, Files
PROCESS_GROUP == "PROCESS_GROUP"
SESSION == "SESSION"
DETACH_TERMINAL == "DETACH_TERMINAL"
NOHUP == "NOHUP"
F_IN == "IN"
F_OUT == "OUT"
F_ERR == "ERR"
Files == {F_IN, F_OUT, F_ERR}

(***************************************************************************)
(* Integer helpers.                                                        *)
(***************************************************************************)
Pow2(n) == IF n = 0 THEN 1 ELSE IF n = 7 THEN 128 ELSE IF n = 8 THEN 256
           ELSE IF n = 16 THEN 65536 ELSE 16777216

\* i32::MIN
MinI32 == -2147483647 - 1

\* mem::transmute::<i32,[u8;4]> on a little-endian target (two's complement)
I32ToBytes(v) ==
    LET w == IF v < 0 THEN v - MinI32 ELSE v
        top == IF v < 0 THEN 128 ELSE 0
    IN  << w % 256, (w \div 256) % 256, (w \div Pow2(16)) % 256,
           ((w \div Pow2(24)) % 256) + top >>

\* mem::transmute::<[u8;4],i32> on a little-endian target (two's complement)
BytesToI32(b) ==
    LET low == b[1] + 256 * b[2] + Pow2(16) * b[3] + Pow2(24) * (b[4] % 128)
    IN  IF b[4] >= 128 THEN MinI32 + low ELSE low

\* nix::sys::signal::Signal::from_c_int: Ok for the signals the platform names
ValidSignal(n) == n >= 1 /\ n <= MaxSignal

(***************************************************************************)
(* Wait-status: the kernel's encoding and the standard library's decoding. *)
(***************************************************************************)
\* the kernel's wait-status of a process that called exit(code)
WExited(code) == (code % 256) * 256
\* the kernel's wait-status of a process killed by signal sig
WSignaled(sig, core) == sig + (IF core THEN 128 ELSE 0)
\* the kernel's wait-status of a stopped (traced) process
WStopped(sig) == sig * 256 + 127
WContinued == Pow2(16) - 1

\* std ExitStatus::code(): WIFEXITED => Some(WEXITSTATUS)
StatusCode(status) ==
    IF status % 128 = 0 THEN [some |-> TRUE, v |-> (status \div 256) % 256]
    ELSE [some |-> FALSE, v |-> 0]

\* std ExitStatusExt::signal(): WIFSIGNALED => Some(WTERMSIG)
StatusSignal(status) ==
    IF status % 128 # 0 /\ status % 128 # 127
    THEN [some |-> TRUE, v |-> status % 128]
    ELSE [some |-> FALSE, v |-> 0]

(***************************************************************************)
(* Messages (messages.rs).                                                 *)
(***************************************************************************)
StartedProcess(success, errno, pid) ==
    [t |-> "StartedProcess", success |-> success, errno |-> errno, pid |-> pid]
ProcessResult(k, v) == [t |-> "ProcessResult", k |-> k, v |-> v]

\* a variant of child_finished that reports only an exit code, 0 when the
\* status carries none
child_finished_CodeOnly(status) ==
    ProcessResult("Exit", IF StatusCode(status).some
                          THEN StatusCode(status).v ELSE 0)

\* server.rs child_finished
child_finished(status) ==
    IF StatusCode(status).some
    THEN ProcessResult("Exit", StatusCode(status).v)
    ELSE IF StatusSignal(status).some
         THEN ProcessResult("Signal", StatusSignal(status).v)
         ELSE ProcessResult("Undefined", 0)

(***************************************************************************)
(* State.                                                                  *)
(***************************************************************************)
VARIABLES
    srv,      \* the server process: "running" | "crashed"
    sigint,   \* SIGINT raised on the server by a Stop request
    pc,       \* per connection: the await point its task is parked at
    cphase,   \* per connection: what the client sends next
    inbox,    \* per connection: client -> server datagrams in flight
    nsent,    \* per connection: Signal datagrams the client has sent
    params,   \* per connection: ChildParams plus the request's flags and pid
    pending,  \* per connection: the encoded reply waiting in sock.send
    log,      \* per connection: system calls and datagrams, in order
    result,   \* per connection: how client_session returned
    proc,     \* per connection: its child process in the kernel
    storage,  \* Watchers.storage: pids with a registered sender
    pipe,     \* per connection: bytes in its Child's notification stream
    ready,    \* per connection: the reactor has seen that stream readable
    sigchld,  \* a SIGCHLD is queued for child_watcher::listen
    arg,      \* input of the function under test (function specifications)
    res,      \* its result
    sockfile, \* the socket file exists at the server's path
    termsig,  \* the SIGINT or SIGTERM sent to the server from outside, else 0
    stops     \* exit statuses of the stop commands run so far

connVars == << pc, cphase, inbox, nsent, params, pending, log, result >>
kernVars == << proc, storage, pipe, ready, sigchld >>
funVars == << arg, res >>
lifeVars == << sockfile, termsig, stops >>
vars == << srv, sigint, pc, cphase, inbox, nsent, params, pending, log,
           result, proc, storage, pipe, ready, sigchld, arg, res,
           sockfile, termsig, stops >>

NoParams == [spawned |-> FALSE, startup |-> {}, is_pg_leader |-> FALSE,
             connsig |-> 0, killsig |-> 0, pid |-> 0]
NoProc == [st |-> "none", status |-> 0]
NoMsg == [t |-> "none"]

\* the pid the kernel gives the child of connection c
PidOf(c) == 100 + c

(***************************************************************************)
(* Child builder (child.rs).                                               *)
(***************************************************************************)
StdioNull == [kind |-> "null", fd |-> -1]
StdioFd(fd) == [kind |-> "fd", fd |-> fd]
StdioUnset == [kind |-> "unset", fd |-> -1]

\* a variant of setup_command_streams that never advances its index i
setup_command_streams_NoAdvance(io, fds) ==
    LET p == io # {} /\ Len(fds) = 0
        pick(b) == IF b \in io THEN (IF p THEN StdioUnset ELSE StdioFd(fds[1]))
                   ELSE StdioNull
    IN  [panic |-> p, stdin |-> pick(F_IN), stdout |-> pick(F_OUT),
         stderr |-> pick(F_ERR), numfds |-> Cardinality(io)]

\* child.rs setup_command_streams: fds[i] panics when i is out of bounds
setup_command_streams(io, fds) ==
    LET n == Len(fds)
        p0 == F_IN \in io /\ 0 >= n
        sin == IF F_IN \in io THEN (IF p0 THEN StdioUnset ELSE StdioFd(fds[1]))
               ELSE StdioNull
        i1 == IF F_IN \in io THEN 1 ELSE 0
        p1 == ~p0 /\ F_OUT \in io /\ i1 >= n
        sout == IF p0 THEN StdioUnset
                ELSE IF F_OUT \in io
                     THEN (IF p1 THEN StdioUnset ELSE StdioFd(fds[i1 + 1]))
                     ELSE StdioNull
        i2 == IF F_OUT \in io THEN i1 + 1 ELSE i1
        p2 == ~p0 /\ ~p1 /\ F_ERR \in io /\ i2 >= n
        serr == IF p0 \/ p1 THEN StdioUnset
                ELSE IF F_ERR \in io
                     THEN (IF p2 THEN StdioUnset ELSE StdioFd(fds[i2 + 1]))
                     ELSE StdioNull
        i3 == IF F_ERR \in io THEN i2 + 1 ELSE i2
    IN  [panic |-> p0 \/ p1 \/ p2, stdin |-> sin, stdout |-> sout,
         stderr |-> serr, numfds |-> i3]

\* child.rs setup_command, up to the call of spawn(cmd)
setup_command(io, fds) ==
    LET st == IF io # {} THEN setup_command_streams(io, fds)
              ELSE [panic |-> FALSE, stdin |-> StdioNull, stdout |-> StdioNull,
                    stderr |-> StdioNull, numfds |-> 0]
    IN  [panic |-> st.panic, stdin |-> st.stdin, stdout |-> st.stdout,
         stderr |-> st.stderr, numfds |-> st.numfds,
         closed |-> IF st.panic THEN << >>
                    ELSE SubSeq(fds, st.numfds + 1, Len(fds))]

(***************************************************************************)
(* Signals to the child (system.rs, server.rs).                            *)
(***************************************************************************)
\* one kill(2) or killpg(2) call and what the kernel answered
KillEv(op, pid, sig, r) ==
    [ev |-> "kill", op |-> op, pid |-> pid, sig |-> sig, r |-> r]

\* system.rs kill
kill(pid, sig) == << KillEv("kill", pid, sig, "ok") >>

\* a variant of killpg without the fallback to the pid
killpg_NoFallback(pid, sig, outcome) ==
    << KillEv("killpg", pid, sig, outcome) >>

\* system.rs killpg: outcome is what the kernel answers to killpg(2)
killpg(pid, sig, outcome) ==
    IF outcome = "ESRCH"
    THEN << KillEv("killpg", pid, sig, outcome), KillEv("kill", pid, sig, "ok") >>
    ELSE << KillEv("killpg", pid, sig, outcome) >>

KillpgOutcomes == {"ok", "ESRCH", "EPERM"}

\* i32 negation as the release build computes it (wrapping)
Neg32(v) == IF v = MinI32 THEN v ELSE -v

\* server.rs pass_signal
pass_signal(pid, sigval, pg_leader, outcome) ==
    LET send_to_group == sigval < 0
        sv == IF sigval < 0 THEN Neg32(sigval) ELSE sigval
    IN  IF ValidSignal(sv)
        THEN IF send_to_group /\ pg_leader
             THEN killpg(pid, sv, outcome)
             ELSE kill(pid, sv)
        ELSE << >>

\* server.rs client_session: startup.contains(PROCESS_GROUP | SESSION)
is_pg_leader(startup) == {PROCESS_GROUP, SESSION} \subseteq startup

\* server.rs client_session: Signal::from_c_int(connsig).unwrap_or(SIGKILL)
connsig_of(connsig) == IF ValidSignal(connsig) THEN connsig ELSE SIGKILL

\* the signal to the child when the client is gone (handle_child)
kill_child(pid, sig, pg_leader, outcome) ==
    IF pg_leader THEN killpg(pid, sig, outcome) ELSE kill(pid, sig)

(***************************************************************************)
(* What the client and the kernel may do.                                  *)
(***************************************************************************)
StartupChoices == SUBSET {PROCESS_GROUP, SESSION}
IoChoices == SUBSET Files
ReceivedFds == << 10, 11, 12 >>
FdChoices == { SubSeq(ReceivedFds, 1, n) : n \in 0..FDBUF_LEN }
ConnsigChoices == {SIGTERM, 0}
SigVals == {SIGTERM, -SIGTSTP, 0}
Headers == { [k |-> "Stop"], [k |-> "Exec"], [k |-> "bad"] }
Bodies == { [k |-> "Body", startup |-> s, io |-> i, fds |-> f, connsig |-> g] :
              s \in StartupChoices, i \in IoChoices, f \in FdChoices,
              g \in ConnsigChoices }
          \cup { [k |-> "bad"] }
SigDatagrams == { [k |-> "Sig", v |-> v] : v \in SigVals } \cup { [k |-> "bad"] }
SpawnResults == { [ok |-> TRUE, os |-> FALSE, errno |-> 0],
                  [ok |-> FALSE, os |-> TRUE, errno |-> 2],
                  [ok |-> FALSE, os |-> FALSE, errno |-> 0] }
Terminations == { WExited(0), WExited(7), WSignaled(SIGKILL, FALSE),
                  WSignaled(SIGTERM, TRUE) }

\* server.rs command line 299: the socket is bound, its file exists, no
\* connection yet
SocketBound ==
    /\ sockfile = TRUE
    /\ termsig = 0
    /\ stops = << >>
    /\ sigint = FALSE
    /\ pc = [c \in Conns |-> "Unborn"]
    /\ cphase = [c \in Conns |-> "none"]
    /\ inbox = [c \in Conns |-> << >>]
    /\ nsent = [c \in Conns |-> 0]
    /\ params = [c \in Conns |-> NoParams]
    /\ pending = [c \in Conns |-> NoMsg]
    /\ log = [c \in Conns |-> << >>]
    /\ result = [c \in Conns |-> "none"]
    /\ proc = [c \in Conns |-> NoProc]
    /\ storage = {}
    /\ pipe = [c \in Conns |-> << >>]
    /\ ready = [c \in Conns |-> FALSE]
    /\ sigchld = FALSE

\* the server once block_on has installed the signal streams and spawned
\* the watcher and the accept loop
ServerStarted ==
    /\ srv = "running"
    /\ SocketBound

Init ==
    /\ ServerStarted
    /\ arg = 0
    /\ res = NoMsg

(***************************************************************************)
(* The client's side of a connection.                                      *)
(***************************************************************************)
\* connect(2) by a client and server.rs listen: the accept loop spawns
\* handle_client for the new socket
Accept(c) ==
    /\ srv = "running"
    /\ pc[c] = "Unborn"
    /\ cphase[c] = "none"
    /\ pc' = [pc EXCEPT ![c] = "Start"]
    /\ cphase' = [cphase EXCEPT ![c] = "hdr"]
    /\ UNCHANGED << srv, sigint, inbox, nsent, params, pending, log, result >>
    /\ UNCHANGED kernVars
    /\ UNCHANGED funVars
    /\ UNCHANGED lifeVars

ClientSendHeader(c) ==
    /\ cphase[c] = "hdr"
    /\ Len(inbox[c]) < MaxInbox
    /\ \E d \in Headers :
         /\ inbox' = [inbox EXCEPT ![c] = Append(@, d)]
         /\ cphase' = [cphase EXCEPT ![c] =
                         IF d.k = "Exec" THEN "body" ELSE "sigs"]
    /\ UNCHANGED << srv, sigint, pc, nsent, params, pending, log, result >>
    /\ UNCHANGED kernVars
    /\ UNCHANGED funVars
    /\ UNCHANGED lifeVars

ClientSendBody(c) ==
    /\ cphase[c] = "body"
    /\ Len(inbox[c]) < MaxInbox
    /\ \E d \in Bodies : inbox' = [inbox EXCEPT ![c] = Append(@, d)]
    /\ cphase' = [cphase EXCEPT ![c] = "sigs"]
    /\ UNCHANGED << srv, sigint, pc, nsent, params, pending, log, result >>
    /\ UNCHANGED kernVars
    /\ UNCHANGED funVars
    /\ UNCHANGED lifeVars

ClientSendSignal(c) ==
    /\ cphase[c] = "sigs"
    /\ Len(inbox[c]) < MaxInbox
    /\ nsent[c] < MaxSignals
    /\ \E d \in SigDatagrams : inbox' = [inbox EXCEPT ![c] = Append(@, d)]
    /\ nsent' = [nsent EXCEPT ![c] = @ + 1]
    /\ UNCHANGED << srv, sigint, pc, cphase, params, pending, log, result >>
    /\ UNCHANGED kernVars
    /\ UNCHANGED funVars
    /\ UNCHANGED lifeVars

ClientClose(c) ==
    /\ cphase[c] \in {"hdr", "body", "sigs"}
    /\ cphase' = [cphase EXCEPT ![c] = "closed"]
    /\ UNCHANGED << srv, sigint, pc, inbox, nsent, params, pending, log, result >>
    /\ UNCHANGED kernVars
    /\ UNCHANGED funVars
    /\ UNCHANGED lifeVars

\* recv(2) has something to return: a datagram, or 0 bytes once the peer closed
Readable(c) == inbox[c] # << >> \/ cphase[c] = "closed"
AtEof(c) == inbox[c] = << >> /\ cphase[c] = "closed"

(***************************************************************************)
(* The connection task (server.rs client_session, handle_child).           *)
(***************************************************************************)
SendEv(m) == [ev |-> "send", m |-> m]
Ev(name) == [ev |-> name]

\* a variant of Return in which an error ends the task of every connection
Return_ErrorEndsEveryTask(c, r, events) ==
    /\ pc' = [d \in Conns |-> IF d = c \/ (r = "Err" /\ pc[d] # "Unborn")
                                THEN "Done" ELSE pc[d]]
    /\ result' = [d \in Conns |-> IF d = c \/ (r = "Err" /\ pc[d] # "Unborn")
                                    THEN r ELSE result[d]]
    /\ log' = [log EXCEPT ![c] = @ \o events \o << Ev("close") >>]

\* the task returns r: its socket is dropped, which closes it
Return(c, r, events) ==
    /\ pc' = [pc EXCEPT ![c] = "Done"]
    /\ result' = [result EXCEPT ![c] = r]
    /\ log' = [log EXCEPT ![c] = @ \o events \o << Ev("close") >>]

\* the task goes on to its next await point
Goto(c, npc, events) ==
    /\ pc' = [pc EXCEPT ![c] = npc]
    /\ log' = [log EXCEPT ![c] = @ \o events]
    /\ UNCHANGED result

\* a variant of OnStop that answers the Stop request with a StartedProcess
OnStop_Replies(c) ==
    /\ sigint' = TRUE
    /\ Return(c, "Ok", << Ev("raise_sigint"),
                          SendEv(StartedProcess(FALSE, 0, -1)) >>)
    /\ UNCHANGED << params, pending >>

\* a variant of OnStop that closes the connection without raising SIGINT
OnStop_NoRaise(c) ==
    /\ Return(c, "Ok", << Ev("raise_sigint") >>)
    /\ UNCHANGED << sigint, params, pending >>

\* server.rs client_session: the request header is Stop
OnStop(c) ==
    /\ sigint' = TRUE
    /\ Return(c, "Ok", << Ev("raise_sigint") >>)
    /\ UNCHANGED << params, pending >>

\* server.rs client_session lines 150-167: sock.recv, decode_request, match
SessRecvRequest(c) ==
    /\ srv = "running"
    /\ pc[c] = "Start"
    /\ \/ \* recv fails
          /\ Return(c, "Err", << >>)
          /\ UNCHANGED << sigint, inbox, params, pending >>
       \/ \* 0 bytes: decode_request of an empty slice fails
          /\ AtEof(c)
          /\ Return(c, "Err", << >>)
          /\ UNCHANGED << sigint, inbox, params, pending >>
       \/ /\ inbox[c] # << >>
          /\ inbox' = [inbox EXCEPT ![c] = Tail(@)]
          /\ LET d == Head(inbox[c]) IN
             CASE d.k = "Stop" -> OnStop(c)
               [] d.k = "Exec" ->
                    /\ Goto(c, "RecvBody", << >>)
                    /\ UNCHANGED << sigint, params, pending >>
               [] OTHER ->
                    /\ Return(c, "Err", << >>)
                    /\ UNCHANGED << sigint, params, pending >>
    /\ UNCHANGED << srv, cphase, nsent >>
    /\ UNCHANGED kernVars
    /\ UNCHANGED funVars
    /\ UNCHANGED lifeVars

\* raw_os_error().unwrap_or(-1)
errno_of(e) == IF e.os THEN e.errno ELSE -1

\* server.rs client_session lines 186-242: from the decoded body to the
\* send of the StartedProcess reply; sp is what Command::spawn answers
OnExecBody(c, d, sp) ==
    LET cmd == setup_command(d.io, d.fds)
        pid == PidOf(c)
        np == [spawned |-> sp.ok, startup |-> d.startup,
               is_pg_leader |-> is_pg_leader(d.startup),
               connsig |-> d.connsig, killsig |-> connsig_of(d.connsig),
               pid |-> IF sp.ok THEN pid ELSE -1]
    IN  IF cmd.panic
        THEN /\ srv' = "crashed"
             /\ Return(c, "Panic", << >>)
             /\ UNCHANGED << params, pending, proc, storage >>
        ELSE IF sp.ok
        THEN /\ params' = [params EXCEPT ![c] = np]
             /\ proc' = [proc EXCEPT ![c] = [st |-> "running", status |-> 0]]
             /\ storage' = storage \cup {pid}
             /\ pending' = [pending EXCEPT ![c] = StartedProcess(TRUE, 0, pid)]
             /\ Goto(c, "SendStarted", << Ev("spawn") >>)
             /\ UNCHANGED srv
        ELSE /\ params' = [params EXCEPT ![c] = np]
             /\ pending' = [pending EXCEPT ![c] =
                              StartedProcess(FALSE, errno_of(sp), -1)]
             /\ Goto(c, "SendFailure",
                     << [ev |-> "spawn_failed", e |-> sp] >>)
             /\ UNCHANGED << srv, proc, storage >>

\* server.rs client_session lines 168-207: sock.recvfds, decode_request_ref,
\* setup_command
SessRecvBody(c) ==
    /\ srv = "running"
    /\ pc[c] = "RecvBody"
    /\ \/ \* recvfds fails
          /\ Return(c, "Err", << >>)
          /\ UNCHANGED << srv, inbox, params, pending, proc, storage >>
       \/ \* 0 bytes: decode_request_ref of an empty slice fails
          /\ AtEof(c)
          /\ Return(c, "Err", << >>)
          /\ UNCHANGED << srv, inbox, params, pending, proc, storage >>
       \/ /\ inbox[c] # << >>
          /\ inbox' = [inbox EXCEPT ![c] = Tail(@)]
          /\ LET d == Head(inbox[c]) IN
             IF d.k = "Body"
             THEN \E sp \in SpawnResults : OnExecBody(c, d, sp)
             ELSE /\ Return(c, "Err", << >>)
                  /\ UNCHANGED << srv, params, pending, proc, storage >>
    /\ UNCHANGED << sigint, cphase, nsent, pipe, ready, sigchld >>
    /\ UNCHANGED funVars
    /\ UNCHANGED lifeVars

\* send(2) can succeed only while the peer holds its end open
CanSend(c) == cphase[c] # "closed"

\* server.rs client_session lines 218-228: send StartedProcess(success),
\* then handle_child
SessSendStarted(c) ==
    /\ srv = "running"
    /\ pc[c] = "SendStarted"
    /\ \/ /\ CanSend(c)
          /\ Goto(c, "Running", << SendEv(pending[c]) >>)
       \/ Return(c, "Err", << >>)
    /\ pending' = [pending EXCEPT ![c] = NoMsg]
    /\ UNCHANGED << srv, sigint, cphase, inbox, nsent, params >>
    /\ UNCHANGED kernVars
    /\ UNCHANGED funVars
    /\ UNCHANGED lifeVars

\* a variant of SessSendFailure that ends the task with the spawn error
SessSendFailure_ReportsError(c) ==
    /\ srv = "running"
    /\ pc[c] = "SendFailure"
    /\ \/ /\ CanSend(c)
          /\ Return(c, "Err", << SendEv(pending[c]) >>)
       \/ Return(c, "Err", << >>)
    /\ pending' = [pending EXCEPT ![c] = NoMsg]
    /\ UNCHANGED << srv, sigint, cphase, inbox, nsent, params >>
    /\ UNCHANGED kernVars
    /\ UNCHANGED funVars
    /\ UNCHANGED lifeVars

\* server.rs client_session lines 239-241: send StartedProcess(failure)
SessSendFailure(c) ==
    /\ srv = "running"
    /\ pc[c] = "SendFailure"
    /\ \/ /\ CanSend(c)
          /\ Return(c, "Ok", << SendEv(pending[c]) >>)
       \/ Return(c, "Err", << >>)
    /\ pending' = [pending EXCEPT ![c] = NoMsg]
    /\ UNCHANGED << srv, sigint, cphase, inbox, nsent, params >>
    /\ UNCHANGED kernVars
    /\ UNCHANGED funVars
    /\ UNCHANGED lifeVars

\* child_watcher.rs Child::poll: the bytes read from the notification stream
\* are a wait-status only when there are exactly MSG_SIZE of them
ChildPoll(bytes) ==
    IF Len(bytes) = MSG_SIZE
    THEN [panic |-> FALSE, status |-> BytesToI32(bytes)]
    ELSE [panic |-> TRUE, status |-> 0]

\* a variant of OnChildExit that encodes the result without shutdown(Read)
OnChildExit_NoShutdown(c, status) ==
    /\ pending' = [pending EXCEPT ![c] = child_finished(status)]
    /\ Goto(c, "SendResult", << >>)

\* server.rs handle_child lines 87-96: the child future resolved
OnChildExit(c, status) ==
    /\ pending' = [pending EXCEPT ![c] = child_finished(status)]
    /\ Goto(c, "SendResult", << Ev("shutdown_read") >>)

\* server.rs handle_child lines 81-98: select resolves Left
RunChildExit(c) ==
    /\ srv = "running"
    /\ pc[c] = "Running"
    /\ ready[c]
    /\ LET r == ChildPoll(pipe[c]) IN
         /\ ~r.panic
         /\ OnChildExit(c, r.status)
    /\ pipe' = [pipe EXCEPT ![c] = << >>]
    /\ ready' = [ready EXCEPT ![c] = FALSE]
    /\ UNCHANGED << srv, sigint, cphase, inbox, nsent, params >>
    /\ UNCHANGED << proc, storage, sigchld >>
    /\ UNCHANGED funVars
    /\ UNCHANGED lifeVars

\* server.rs handle_child lines 100-112: the read of the socket failed
OnClientError(c, outcome) ==
    Goto(c, "Reaping",
         << Ev("recv_err") >>
         \o kill_child(params[c].pid, SIGKILL, params[c].is_pg_leader, outcome))

\* a variant of OnClientEof that also reports a result to the client
OnClientEof_SendsResult(c, outcome) ==
    Goto(c, "Reaping",
         << Ev("eof") >>
         \o kill_child(params[c].pid, params[c].killsig,
                       params[c].is_pg_leader, outcome)
         \o << SendEv(ProcessResult("Undefined", 0)) >>)

\* server.rs handle_child lines 113-125: the read returned 0 bytes
OnClientEof(c, outcome) ==
    Goto(c, "Reaping",
         << Ev("eof") >>
         \o kill_child(params[c].pid, params[c].killsig,
                       params[c].is_pg_leader, outcome))

\* a variant of OnClientDatagram that skips what it cannot decode
OnClientDatagram_SkipsUndecodable(c, d, outcome) ==
    IF d.k = "Sig"
    THEN Goto(c, "Running",
              << [ev |-> "signal", v |-> d.v] >>
              \o pass_signal(params[c].pid, d.v, params[c].is_pg_leader,
                             outcome))
    ELSE Goto(c, "Running", << >>)

\* server.rs handle_child lines 126-131: a datagram of size > 0
OnClientDatagram(c, d, outcome) ==
    IF d.k = "Sig"
    THEN Goto(c, "Running",
              << [ev |-> "signal", v |-> d.v] >>
              \o pass_signal(params[c].pid, d.v, params[c].is_pg_leader,
                             outcome))
    ELSE Return(c, "Err", << >>)

\* server.rs handle_child lines 99-132: select resolves Right
RunRecv(c) ==
    /\ srv = "running"
    /\ pc[c] = "Running"
    /\ ~ready[c]
    /\ \E outcome \in KillpgOutcomes :
         \/ /\ OnClientError(c, outcome)
            /\ UNCHANGED inbox
         \/ /\ AtEof(c)
            /\ OnClientEof(c, outcome)
            /\ UNCHANGED inbox
         \/ /\ inbox[c] # << >>
            /\ inbox' = [inbox EXCEPT ![c] = Tail(@)]
            /\ OnClientDatagram(c, Head(inbox[c]), outcome)
    /\ UNCHANGED << srv, sigint, cphase, nsent, params, pending >>
    /\ UNCHANGED kernVars
    /\ UNCHANGED funVars
    /\ UNCHANGED lifeVars

\* server.rs handle_child lines 110 and 123: let _ = child1.await; break
RunReaped(c) ==
    /\ srv = "running"
    /\ pc[c] = "Reaping"
    /\ ready[c]
    /\ ~ChildPoll(pipe[c]).panic
    /\ Return(c, "Ok", << Ev("reaped") >>)
    /\ pipe' = [pipe EXCEPT ![c] = << >>]
    /\ ready' = [ready EXCEPT ![c] = FALSE]
    /\ UNCHANGED << srv, sigint, cphase, inbox, nsent, params, pending >>
    /\ UNCHANGED << proc, storage, sigchld >>
    /\ UNCHANGED funVars
    /\ UNCHANGED lifeVars

\* server.rs handle_child lines 95-97: send the ProcessResult, break
SessSendResult(c) ==
    /\ srv = "running"
    /\ pc[c] = "SendResult"
    /\ \/ /\ CanSend(c)
          /\ Return(c, "Ok", << SendEv(pending[c]) >>)
       \/ Return(c, "Err", << >>)
    /\ pending' = [pending EXCEPT ![c] = NoMsg]
    /\ UNCHANGED << srv, sigint, cphase, inbox, nsent, params >>
    /\ UNCHANGED kernVars
    /\ UNCHANGED funVars
    /\ UNCHANGED lifeVars

(***************************************************************************)
(* The kernel, the reactor and the child watcher (child_watcher.rs).       *)
(***************************************************************************)
\* the child of connection c terminates: it becomes a zombie and the kernel
\* queues SIGCHLD for the server
ChildTerminate(c) ==
    /\ proc[c].st = "running"
    /\ \E w \in Terminations :
         proc' = [proc EXCEPT ![c] = [st |-> "zombie", status |-> w]]
    /\ sigchld' = TRUE
    /\ UNCHANGED << srv, sigint >>
    /\ UNCHANGED connVars
    /\ UNCHANGED << storage, pipe, ready >>
    /\ UNCHANGED funVars
    /\ UNCHANGED lifeVars

Zombies == { c \in Conns : proc[c].st = "zombie" }

\* a variant of notify that finds the entry of any pid
notify_AnyEntry(c) == storage # {}

\* child_watcher.rs Watchers::notify and send: the entry is removed and the
\* status written to its stream
notify(c) == PidOf(c) \in storage

\* child_watcher.rs listen: one SIGCHLD, then waitpid(-1, WNOHANG) until it
\* returns 0 or ECHILD
WatcherDrain ==
    /\ srv = "running"
    /\ sigchld
    /\ sigchld' = FALSE
    /\ proc' = [c \in Conns |->
                  IF c \in Zombies THEN [proc[c] EXCEPT !.st = "reaped"]
                  ELSE proc[c]]
    /\ pipe' = [c \in Conns |->
                  IF c \in Zombies /\ notify(c)
                  THEN pipe[c] \o I32ToBytes(proc[c].status)
                  ELSE pipe[c]]
    /\ storage' = storage \ { PidOf(c) : c \in Zombies }
    /\ UNCHANGED << srv, sigint, ready >>
    /\ UNCHANGED connVars
    /\ UNCHANGED funVars
    /\ UNCHANGED lifeVars

\* the reactor's next turn reports the notification stream readable
ReactorObserve(c) ==
    /\ srv = "running"
    /\ pc[c] \in {"SendStarted", "Running", "Reaping"}
    /\ pipe[c] # << >>
    /\ ~ready[c]
    /\ ready' = [ready EXCEPT ![c] = TRUE]
    /\ UNCHANGED << srv, sigint >>
    /\ UNCHANGED connVars
    /\ UNCHANGED << proc, storage, pipe, sigchld >>
    /\ UNCHANGED funVars
    /\ UNCHANGED lifeVars

(***************************************************************************)
(* Specification of one connection with its child and the watcher.         *)
(***************************************************************************)
Single == {1}

Next ==
    \/ \E c \in Single : Accept(c)
    \/ \E c \in Single : ClientSendHeader(c)
    \/ \E c \in Single : ClientSendBody(c)
    \/ \E c \in Single : ClientSendSignal(c)
    \/ \E c \in Single : ClientClose(c)
    \/ \E c \in Single : SessRecvRequest(c)
    \/ \E c \in Single : SessRecvBody(c)
    \/ \E c \in Single : SessSendStarted(c)
    \/ \E c \in Single : SessSendFailure(c)
    \/ \E c \in Single : RunChildExit(c)
    \/ \E c \in Single : RunRecv(c)
    \/ \E c \in Single : RunReaped(c)
    \/ \E c \in Single : SessSendResult(c)
    \/ \E c \in Single : ChildTerminate(c)
    \/ \E c \in Single : ReactorObserve(c)
    \/ WatcherDrain

Spec == Init /\ [][Next]_vars

(***************************************************************************)
(* Reading the log of a connection.                                        *)
(***************************************************************************)
IsSend(e) == e.ev = "send"
Sent(c) == LET s == SelectSeq(log[c], IsSend)
           IN  [i \in 1..Len(s) |-> s[i].m]
HasEv(c, name) == \E i \in 1..Len(log[c]) : log[c][i].ev = name
SentOfType(c, t) == { i \in 1..Len(Sent(c)) : Sent(c)[i].t = t }
IsPrefixOf(s, t) == Len(s) <= Len(t) /\ \A i \in 1..Len(s) : s[i] = t[i]
SentTypes(c) == [i \in 1..Len(Sent(c)) |-> Sent(c)[i].t]
\* the server saw the client go away while the child ran
Disconnected(c) == HasEv(c, "eof") \/ HasEv(c, "recv_err")
\* a child that leads its own process group, as the request's flags make it
GroupLeader(startup) == PROCESS_GROUP \in startup \/ SESSION \in startup

(***************************************************************************)
(* C1.  Datagrams sent after a successful spawn.                           *)
(***************************************************************************)
\* C1 as stated: for every Exec request whose spawn succeeds, the complete
\* sequence of datagrams the server sends on the connection is exactly
\* [StartedProcess(success=true, pid=p), ProcessResult(_)].  Stated here for
\* the tasks that end without any transport or protocol error.
C1_ExactlyStartedThenResult ==
    \A c \in Conns :
        (pc[c] = "Done" /\ result[c] = "Ok" /\ HasEv(c, "spawn")) =>
            /\ SentTypes(c) = << "StartedProcess", "ProcessResult" >>
            /\ Sent(c)[1].success /\ Sent(c)[1].pid = PidOf(c)

\* C1 amended: after a successful spawn the datagrams sent are a prefix of
\* [StartedProcess(success=true, pid=p), ProcessResult(_)] and nothing else;
\* the whole pair is sent exactly when the task ends with success without
\* having seen the client disconnect, and once the server has seen the
\* client disconnect (EOF or read error) only StartedProcess has been sent.
C1_PrefixOfStartedThenResult ==
    \A c \in Conns :
        HasEv(c, "spawn") =>
            /\ IsPrefixOf(SentTypes(c), << "StartedProcess", "ProcessResult" >>)
            /\ Len(Sent(c)) >= 1 =>
                   Sent(c)[1] = StartedProcess(TRUE, 0, PidOf(c))
            /\ pc[c] = "Done" =>
                   (Len(Sent(c)) = 2 <=> (result[c] = "Ok" /\ ~Disconnected(c)))
            /\ Disconnected(c) => Len(Sent(c)) = 1

C1_Witness ==
    \E c \in Conns :
        /\ pc[c] = "Done" /\ HasEv(c, "spawn")
        /\ SentTypes(c) = << "StartedProcess", "ProcessResult" >>

(***************************************************************************)
(* C2.  Datagrams sent after a failed spawn.                               *)
(***************************************************************************)
SpawnError(c) ==
    LET i == CHOOSE i \in 1..Len(log[c]) : log[c][i].ev = "spawn_failed"
    IN  log[c][i].e

\* C2 as stated: for every Exec request whose spawn fails the server sends
\* exactly one datagram, StartedProcess(success=false, errno=e), the task
\* ends with success and no ProcessResult is ever sent.
C2_ExactlyOneFailureReply ==
    \A c \in Conns :
        (pc[c] = "Done" /\ HasEv(c, "spawn_failed")) =>
            /\ SentTypes(c) = << "StartedProcess" >>
            /\ ~Sent(c)[1].success
            /\ result[c] = "Ok"

\* C2 amended: after a failed spawn the server sends at most one datagram,
\* StartedProcess(success=false, errno=e, pid=-1), and never a
\* ProcessResult; the task ends with success exactly when that send
\* succeeded, and with the transport error (nothing sent) when it failed.
C2_AtMostOneFailureReply ==
    \A c \in Conns :
        HasEv(c, "spawn_failed") =>
            /\ IsPrefixOf(SentTypes(c), << "StartedProcess" >>)
            /\ Len(Sent(c)) = 1 =>
                   /\ ~Sent(c)[1].success
                   /\ Sent(c)[1].pid = -1
                   /\ SpawnError(c).os => Sent(c)[1].errno = SpawnError(c).errno
            /\ pc[c] = "Done" => (result[c] = "Ok" <=> Len(Sent(c)) = 1)
            /\ pc[c] = "Done" => result[c] \in {"Ok", "Err"}
            /\ proc[c].st = "none"

C2_Witness ==
    \E c \in Conns :
        /\ pc[c] = "Done" /\ HasEv(c, "spawn_failed") /\ result[c] = "Ok"
        /\ Len(Sent(c)) = 1 /\ Sent(c)[1].errno = 2

(***************************************************************************)
(* C3.  One StartedProcess per connection.                                 *)
(***************************************************************************)
\* C3 as stated: on every accepted connection the server sends exactly one
\* StartedProcess, whatever request the client sent.  Stated here for the
\* tasks that end without any transport or protocol error.
C3_ExactlyOneStarted ==
    \A c \in Conns :
        (pc[c] = "Done" /\ result[c] = "Ok") =>
            Cardinality(SentOfType(c, "StartedProcess")) = 1

\* C3 amended: on every accepted connection the server sends at most one
\* StartedProcess (never two), and only after it attempted the spawn of an
\* Exec request; it sends none for a Stop request; a task that ends with
\* success on an Exec request has sent exactly one.
C3_AtMostOneStarted ==
    \A c \in Conns :
        /\ Cardinality(SentOfType(c, "StartedProcess")) <= 1
        /\ SentOfType(c, "StartedProcess") # {} =>
               (HasEv(c, "spawn") \/ HasEv(c, "spawn_failed"))
        /\ HasEv(c, "raise_sigint") => Sent(c) = << >>
        /\ (pc[c] = "Done" /\ result[c] = "Ok" /\ ~HasEv(c, "raise_sigint")) =>
               Cardinality(SentOfType(c, "StartedProcess")) = 1

C3_Witness ==
    \E c \in Conns :
        /\ pc[c] = "Done" /\ result[c] = "Ok" /\ HasEv(c, "raise_sigint")
        /\ Sent(c) = << >>

(***************************************************************************)
(* C4.  Client EOF while the child runs.                                   *)
(***************************************************************************)
IsKill(e) == e.ev = "kill"
\* the position of the first event called name in the log of c
FirstEv(c, name) == CHOOSE i \in 1..Len(log[c]) :
                        /\ log[c][i].ev = name
                        /\ \A j \in 1..(i - 1) : log[c][j].ev # name
\* the kill(2)/killpg(2) calls the task of c made from position i on
KillsFrom(c, i) == SelectSeq(SubSeq(log[c], i, Len(log[c])), IsKill)
Delivered(ks) == { i \in 1..Len(ks) : ks[i].r = "ok" }

\* what the task does once it has read 0 bytes, with toGroup saying whether
\* the signal is for the child's group
EofDelivery(c, toGroup) ==
    LET ks == KillsFrom(c, FirstEv(c, "eof")) IN
    /\ Cardinality(Delivered(ks)) <= 1
    /\ \A i \in 1..Len(ks) :
           ks[i].pid = PidOf(c) /\ ks[i].sig = params[c].connsig
    /\ Len(ks) >= 1
    /\ ks[1].op = IF toGroup THEN "killpg" ELSE "kill"
    /\ SentOfType(c, "ProcessResult") = {}
    /\ pc[c] = "Done" => (HasEv(c, "reaped") /\ result[c] = "Ok")

\* C4: when the server reads 0 bytes (client EOF) while the child is alive,
\* it delivers the request's connsig to the child's group if the child is a
\* group leader (PROCESS_GROUP or SESSION was requested), else to the
\* process, at most once; it then waits for the watcher's notification and
\* closes the connection without sending a ProcessResult.  Stated for the
\* requests whose connsig names a signal.
C4_EofSignalsGroupOfLeader ==
    \A c \in Conns :
        (HasEv(c, "eof") /\ ValidSignal(params[c].connsig)) =>
            EofDelivery(c, GroupLeader(params[c].startup))

(***************************************************************************)
(* C5.  Order of the replies, the shutdown and the close.                  *)
(***************************************************************************)
SendsOf(c, t) == { i \in 1..Len(log[c]) :
                     log[c][i].ev = "send" /\ log[c][i].m.t = t }
EvsOf(c, name) == { i \in 1..Len(log[c]) : log[c][i].ev = name }

\* C5: on every connection StartedProcess is sent before any ProcessResult;
\* shutdown(Read) is called before the ProcessResult is sent; the socket is
\* closed only after the ProcessResult send; after the ProcessResult nothing
\* more is written to the client.
C5_ReplyOrder ==
    \A c \in Conns :
        /\ \A j \in SendsOf(c, "ProcessResult") :
               /\ \E i \in SendsOf(c, "StartedProcess") : i < j
               /\ \E k \in EvsOf(c, "shutdown_read") : k < j
               /\ \A k \in EvsOf(c, "close") : j < k
               /\ \A k \in (j + 1)..Len(log[c]) : log[c][k].ev # "send"
        /\ \A k \in EvsOf(c, "close") : k = Len(log[c])
        /\ \A k \in EvsOf(c, "shutdown_read") :
               \A i \in SendsOf(c, "StartedProcess") : i < k

C5_Witness ==
    \E c \in Conns :
        /\ SendsOf(c, "ProcessResult") # {}
        /\ EvsOf(c, "close") # {}
        /\ EvsOf(c, "shutdown_read") # {}

(***************************************************************************)
(* C8.  A Signal datagram while the child runs.                            *)
(***************************************************************************)
Abs(v) == IF v < 0 THEN -v ELSE v

\* C8: for a Signal datagram with value v received in Running, the server
\* calls killpg(pid, |v|) if v < 0 and the request's startup flags contained
\* PROCESS_GROUP or SESSION (either one suffices), and kill(pid, |v|) in
\* every other case.  Stated for the values whose |v| names a signal.
C8_SignalToGroupOfLeader ==
    \A c \in Conns :
        \A i \in EvsOf(c, "signal") :
            LET v == log[c][i].v IN
            ValidSignal(Abs(v)) =>
                /\ i < Len(log[c])
                /\ log[c][i + 1].ev = "kill"
                /\ log[c][i + 1].pid = PidOf(c)
                /\ log[c][i + 1].sig = Abs(v)
                /\ log[c][i + 1].op =
                       IF v < 0 /\ GroupLeader(params[c].startup)
                       THEN "killpg" ELSE "kill"

(***************************************************************************)
(* C9.  An Exec body whose descriptor count differs from its io flags.     *)
(***************************************************************************)
\* the task of c is about to decode an Exec body whose descriptors are not
\* as many as the bits set in its io flags
MismatchedBody(c) ==
    /\ pc[c] = "RecvBody"
    /\ inbox[c] # << >>
    /\ Head(inbox[c]).k = "Body"
    /\ Len(Head(inbox[c]).fds) # Cardinality(Head(inbox[c]).io)

\* C9: an Exec body that arrives with a number of descriptors different
\* from the number of bits set in io_flags is rejected with a protocol
\* error: no child is spawned and the server keeps running.
C9_MismatchRejected ==
    [][ \A c \in Conns :
          (MismatchedBody(c) /\ inbox'[c] # inbox[c]) =>
              /\ proc'[c].st = "none"
              /\ srv' = "running" ]_vars

(***************************************************************************)
(* C6.  From the kernel's wait-status to the ProcessResult.                *)
(* Specification SpecStatus: a child terminates in one of the ways the     *)
(* kernel knows (arg); the watcher writes its status to the notification   *)
(* stream (child_watcher.rs send), Child::poll reads it back and           *)
(* child_finished encodes the reply (res).                                 *)
(***************************************************************************)
ExitCodes == 0..MaxExitCode \cup { Pow2(8) - 1 }
HowChildrenEnd ==
    { [how |-> "exit", n |-> code, core |-> FALSE] : code \in ExitCodes }
    \cup { [how |-> "signal", n |-> sig, core |-> core] :
             sig \in 1..MaxSignal, core \in BOOLEAN }
    \cup { [how |-> "stopped", n |-> sig, core |-> FALSE] : sig \in 1..MaxSignal }
    \cup { [how |-> "continued", n |-> 0, core |-> FALSE] }

\* the wait-status waitpid(2) reports for a child that ended as e says
KernelStatus(e) ==
    CASE e.how = "exit" -> WExited(e.n)
      [] e.how = "signal" -> WSignaled(e.n, e.core)
      [] e.how = "stopped" -> WStopped(e.n)
      [] OTHER -> WContinued

InitStatus ==
    /\ ServerStarted
    /\ arg \in HowChildrenEnd
    /\ res = NoMsg

\* child_watcher.rs send, Child::poll and server.rs child_finished in turn
ReportStatus ==
    /\ res = NoMsg
    /\ LET r == ChildPoll(I32ToBytes(KernelStatus(arg))) IN
         /\ ~r.panic
         /\ res' = child_finished(r.status)
    /\ UNCHANGED << srv, sigint, arg >>
    /\ UNCHANGED lifeVars
    /\ UNCHANGED connVars
    /\ UNCHANGED kernVars

NextStatus == ReportStatus

SpecStatus == InitStatus /\ [][NextStatus]_vars

\* C6: the ProcessResult is determined by the child's wait-status: a child
\* that exited normally with code c gives Exit(c), a child killed by signal
\* s gives Signal(s), any other status gives Undefined.
C6_ResultFollowsStatus ==
    res # NoMsg =>
        CASE arg.how = "exit" -> res = ProcessResult("Exit", arg.n)
          [] arg.how = "signal" -> res = ProcessResult("Signal", arg.n)
          [] OTHER -> res = ProcessResult("Undefined", 0)

C6_Witness ==
    /\ arg.how = "signal" /\ arg.n = SIGKILL /\ arg.core
    /\ res = ProcessResult("Signal", SIGKILL)

(***************************************************************************)
(* C7.  The client's exit status.                                          *)
(* Specification SpecClient: the server's last act on the connection       *)
(* (arg) is a ProcessResult datagram or a hang-up; the client's wait loop  *)
(* turns it into the exit status of the client process (res).              *)
(***************************************************************************)
HangUp == [t |-> "HangUp"]
LastActs ==
    { ProcessResult("Exit", code) : code \in ExitCodes }
    \cup { ProcessResult("Signal", sig) : sig \in 1..MaxSignal }
    \cup { ProcessResult("Undefined", 0), HangUp }

\* the return code the client's codec makes of a ProcessResult datagram
RetCodeOf(m) ==
    CASE m.k = "Exit" -> m.v
      [] m.k = "Signal" -> 128 + m.v
      [] OTHER -> 127

\* what the client's stream of return codes yields first
ReadStream(a) ==
    IF a = HangUp THEN [some |-> FALSE, ret |-> 0]
    ELSE [some |-> TRUE, ret |-> RetCodeOf(a)]

\* a variant of wait_child that takes a hang-up for success
wait_child_HangUpIsZero(read) ==
    IF read.some THEN read.ret ELSE 0

\* client.rs wait_child: Some(ret) => ret.0, None => 128
wait_child(read) ==
    IF read.some THEN read.ret ELSE 128

ExitStatusOf(n) == [t |-> "exit_status", v |-> n]

InitClient ==
    /\ ServerStarted
    /\ arg \in LastActs
    /\ res = NoMsg

ClientWait ==
    /\ res = NoMsg
    /\ res' = ExitStatusOf(wait_child(ReadStream(arg)))
    /\ UNCHANGED << srv, sigint, arg >>
    /\ UNCHANGED lifeVars
    /\ UNCHANGED connVars
    /\ UNCHANGED kernVars

NextClient == ClientWait

SpecClient == InitClient /\ [][NextClient]_vars

IsInjective(f) == \A i, j \in DOMAIN f : f[i] = f[j] => i = j
Range(f) == { f[i] : i \in DOMAIN f }
FdArrays ==
    { f \in UNION { [1..n -> Range(ReceivedFds)] : n \in 0..FDBUF_LEN } :
        IsInjective(f) }

InitStreams ==
    /\ ServerStarted
    /\ arg \in [io : IoChoices, fds : FdArrays]
    /\ res = NoMsg

SetupStreams ==
    /\ res = NoMsg
    /\ res' = setup_command(arg.io, arg.fds)
    /\ UNCHANGED << srv, sigint, arg >>
    /\ UNCHANGED lifeVars
    /\ UNCHANGED connVars
    /\ UNCHANGED kernVars

NextStreams == SetupStreams

SpecStreams == InitStreams /\ [][NextStreams]_vars

\* the descriptor a set bit b is expected to consume: the received
\* descriptors are taken in order by the set bits among `before` and b
Consumed(io, fds, before) == fds[Cardinality(io \cap before) + 1]
ExpectedStream(io, fds, b, before) ==
    IF b \in io THEN StdioFd(Consumed(io, fds, before)) ELSE StdioNull

\* C10: each set bit among IN, OUT, ERR (in that order) consumes the next
\* received descriptor for slot 0, 1, 2; each cleared bit makes that stream
\* /dev/null; an empty io_flags nulls all three; every received descriptor
\* not consumed by a slot is closed in the server.  Stated for the bodies
\* that carry at least as many descriptors as bits are set.
C10_StdioInOrder ==
    (res # NoMsg /\ Len(arg.fds) >= Cardinality(arg.io)) =>
        LET io == arg.io
            fds == arg.fds
            used == { r.fd : r \in { s \in {res.stdin, res.stdout, res.stderr} :
                                       s.kind = "fd" } }
        IN  /\ ~res.panic
            /\ res.stdin = ExpectedStream(io, fds, F_IN, {})
            /\ res.stdout = ExpectedStream(io, fds, F_OUT, {F_IN})
            /\ res.stderr = ExpectedStream(io, fds, F_ERR, {F_IN, F_OUT})
            /\ io = {} => { res.stdin, res.stdout, res.stderr } = { StdioNull }
            /\ Range(res.closed) = Range(fds) \ used
            /\ Cardinality(used) = Cardinality(io)

C10_Witness ==
    /\ res # NoMsg
    /\ arg.io = {F_OUT, F_ERR} /\ Len(arg.fds) = FDBUF_LEN
    /\ res.stdin = StdioNull
    /\ res.stdout = StdioFd(arg.fds[1]) /\ res.stderr = StdioFd(arg.fds[2])
    /\ res.closed = << arg.fds[3] >>

(***************************************************************************)
(* C11, C12.  The child watcher and the holders of its handles.            *)
(* Specification SpecWatcher: every connection of Conns may get a child    *)
(* registered with the watcher (child_watcher.rs spawn), or the server may *)
(* have a child that no Child was made for; the children terminate, listen *)
(* reaps them, and the holder of a Child polls it or drops it.             *)
(***************************************************************************)
\* child_watcher.rs spawn: command.spawn() and Child::from_id, which
\* registers the pid; the connection task holds the Child
Register(c) ==
    /\ srv = "running"
    /\ pc[c] = "Unborn"
    /\ proc[c].st = "none"
    /\ proc' = [proc EXCEPT ![c] = [st |-> "running", status |-> 0]]
    /\ storage' = storage \cup { PidOf(c) }
    /\ Goto(c, "Running", << Ev("spawn") >>)
    /\ UNCHANGED << srv, sigint, cphase, inbox, nsent, params, pending >>
    /\ UNCHANGED << pipe, ready, sigchld >>
    /\ UNCHANGED funVars
    /\ UNCHANGED lifeVars

\* a child of the server process that was not spawned through
\* child_watcher.rs spawn: waitpid(-1) reports it all the same
InheritedChild(c) ==
    /\ srv = "running"
    /\ pc[c] = "Unborn"
    /\ proc[c].st = "none"
    /\ proc' = [proc EXCEPT ![c] = [st |-> "running", status |-> 0]]
    /\ Goto(c, "NoTask", << >>)
    /\ UNCHANGED << srv, sigint, cphase, inbox, nsent, params, pending >>
    /\ UNCHANGED << storage, pipe, ready, sigchld >>
    /\ UNCHANGED funVars
    /\ UNCHANGED lifeVars

\* a variant of ChildReady that leaves the status in the stream and the
\* task waiting
ChildReady_KeepsStream(c) ==
    /\ srv = "running"
    /\ pc[c] = "Running"
    /\ ready[c]
    /\ Len(SelectSeq(log[c], LAMBDA e : e.ev = "status")) < 2
    /\ LET r == ChildPoll(pipe[c]) IN
         /\ ~r.panic
         /\ Goto(c, "Running", << [ev |-> "status", v |-> r.status] >>)
    /\ UNCHANGED << srv, sigint, cphase, inbox, nsent, params, pending >>
    /\ UNCHANGED kernVars
    /\ UNCHANGED funVars
    /\ UNCHANGED lifeVars

\* child_watcher.rs Child::poll returns Ready(Ok(status)) to the task that
\* awaits the Child
ChildReady(c) ==
    /\ srv = "running"
    /\ pc[c] = "Running"
    /\ ready[c]
    /\ LET r == ChildPoll(pipe[c]) IN
         /\ ~r.panic
         /\ Return(c, "Ok", << [ev |-> "status", v |-> r.status] >>)
    /\ pipe' = [pipe EXCEPT ![c] = << >>]
    /\ ready' = [ready EXCEPT ![c] = FALSE]
    /\ UNCHANGED << srv, sigint, cphase, inbox, nsent, params, pending >>
    /\ UNCHANGED << proc, storage, sigchld >>
    /\ UNCHANGED funVars
    /\ UNCHANGED lifeVars

\* server.rs client_session line 220 and handle_child line 128: the task
\* returns through `?` while it holds the Child, which is dropped
DropChild(c) ==
    /\ srv = "running"
    /\ pc[c] = "Running"
    /\ Return(c, "Err", << Ev("dropped") >>)
    /\ UNCHANGED << srv, sigint, cphase, inbox, nsent, params, pending >>
    /\ UNCHANGED kernVars
    /\ UNCHANGED funVars
    /\ UNCHANGED lifeVars

NextWatcher ==
    \/ \E c \in Conns : Register(c)
    \/ \E c \in Conns : InheritedChild(c)
    \/ \E c \in Conns : ChildTerminate(c)
    \/ \E c \in Conns : ReactorObserve(c)
    \/ \E c \in Conns : ChildReady(c)
    \/ \E c \in Conns : DropChild(c)
    \/ WatcherDrain

SpecWatcher == Init /\ [][NextWatcher]_vars

\* the executor runs the watcher task and every task that was woken
SpecWatcherFair ==
    /\ SpecWatcher
    /\ WF_vars(WatcherDrain)
    /\ \A c \in Conns : WF_vars(ReactorObserve(c))
    /\ \A c \in Conns : WF_vars(ChildReady(c))

\* the wait-statuses the holder of the Child of c has read from its handle
StatusesRead(c) == SelectSeq(log[c], LAMBDA e : e.ev = "status")
\* the bytes written so far to the handle of c: those still in the stream
\* and those read from it
BytesWritten(c) == Len(pipe[c]) + MSG_SIZE * Len(StatusesRead(c))

\* C11: the watcher writes at most one wait-status to the handle of a
\* registered pid, and reaping a pid that has no entry in the table changes
\* nothing: no handle is written, no entry is added or removed, no error is
\* raised.
C11_OneStatusPerHandle ==
    /\ [](\A c \in Conns : BytesWritten(c) <= MSG_SIZE)
    /\ [][ \A c \in Conns :
             (proc[c].st = "zombie" /\ proc'[c].st = "reaped"
                 /\ PidOf(c) \notin storage) =>
                 /\ pipe'[c] = pipe[c]
                 /\ storage' = storage \ { PidOf(d) : d \in Zombies \ {c} }
                 /\ \A d \in Conns \ Zombies : pipe'[d] = pipe[d]
                 /\ srv' = "running" ]_vars

C11_Witness ==
    \E c, d \in Conns :
        /\ proc[c].st = "reaped" /\ ~HasEv(c, "spawn") /\ pipe[c] = << >>
        /\ proc[d].st = "reaped" /\ HasEv(d, "spawn")
        /\ Len(StatusesRead(d)) = 1

\* the watcher has reaped the child that was registered for c
Reaped(c) == HasEv(c, "spawn") /\ proc[c].st = "reaped"
\* the wait-status of the child of c is with c: read by the task that holds
\* the Child, or in its stream for that task to read
StatusWithOwner(c) ==
    \/ Len(StatusesRead(c)) = 1
    \/ pc[c] = "Running" /\ Len(pipe[c]) = MSG_SIZE

command_returns_KeepsFile(how) ==
    /\ srv' = how
    /\ UNCHANGED sockfile

\* server.rs command lines 300-305 and 339-340: command returns or unwinds,
\* and the deferred block removes the socket file
command_returns(how) ==
    /\ srv' = how
    /\ sockfile' = FALSE

\* the listening socket is open: connect(2) to the path succeeds
Listening == srv \in {"bound", "running", "crashed"}
Exited == {"exited_ok", "exited_err", "exited_panic"}

\* server.rs command lines 308-317: block_on starts; Socket::from_fd and the
\* signal streams are created (each may fail with `?`), the watcher and the
\* accept loop are spawned
InstallHandlers ==
    /\ srv = "bound"
    /\ \/ srv' = "running" /\ UNCHANGED sockfile
       \/ command_returns("exited_err")
    /\ UNCHANGED << sigint, termsig, stops >>
    /\ UNCHANGED connVars
    /\ UNCHANGED kernVars
    /\ UNCHANGED funVars

\* SIGINT or SIGTERM sent to the server process: the signal stream of
\* block_on gets it once installed; before that the default action of the
\* signal ends the process
ExternalSignal ==
    /\ termsig = 0
    /\ \E sig \in {SIGINT, SIGTERM} :
         \/ /\ srv = "running"
            /\ termsig' = sig
            /\ UNCHANGED srv
         \/ /\ srv = "bound"
            /\ srv' = "killed"
            /\ termsig' = sig
    /\ UNCHANGED << sigint, sockfile, stops >>
    /\ UNCHANGED connVars
    /\ UNCHANGED kernVars
    /\ UNCHANGED funVars

\* server.rs command lines 319-340: the select of the SIGINT and SIGTERM
\* streams yields, block_on returns Ok(0)
ServerShutdown ==
    /\ srv = "running"
    /\ sigint \/ termsig # 0
    /\ command_returns("exited_ok")
    /\ UNCHANGED << sigint, termsig, stops >>
    /\ UNCHANGED connVars
    /\ UNCHANGED kernVars
    /\ UNCHANGED funVars

\* a panic of a task unwinds through block_on and command
ServerUnwind ==
    /\ srv = "crashed"
    /\ command_returns("exited_panic")
    /\ UNCHANGED << sigint, termsig, stops >>
    /\ UNCHANGED connVars
    /\ UNCHANGED kernVars
    /\ UNCHANGED funVars

\* stop.rs command lines 30 and 34-43: connect; a failed connect gives 128
StopConnect(c) ==
    /\ cphase[c] = "none"
    /\ pc[c] = "Unborn"
    /\ Len(stops) + Cardinality({ d \in Conns : cphase[d] = "stop" }) < MaxStops
    /\ IF Listening
       THEN /\ cphase' = [cphase EXCEPT ![c] = "stop"]
            /\ UNCHANGED stops
       ELSE /\ stops' = Append(stops, 128)
            /\ UNCHANGED cphase
    /\ UNCHANGED << srv, sigint, pc, inbox, nsent, params, pending, log, result >>
    /\ UNCHANGED << sockfile, termsig >>
    /\ UNCHANGED kernVars
    /\ UNCHANGED funVars

\* stop.rs execute and main.rs lines 459-464: send Stop and exit 0; a
\* failed send exits 1
StopSend(c) ==
    /\ cphase[c] = "stop"
    /\ cphase' = [cphase EXCEPT ![c] = "closed"]
    /\ IF Listening /\ pc[c] # "Done"
       THEN /\ inbox' = [inbox EXCEPT ![c] = Append(@, [k |-> "Stop"])]
            /\ stops' = Append(stops, 0)
       ELSE /\ stops' = Append(stops, 1)
            /\ UNCHANGED inbox
    /\ UNCHANGED << srv, sigint, pc, nsent, params, pending, log, result >>
    /\ UNCHANGED << sockfile, termsig >>
    /\ UNCHANGED kernVars
    /\ UNCHANGED funVars

\* server.rs listen: the accept loop spawns handle_client for the socket of
\* a stop command
AcceptStop(c) ==
    /\ srv = "running"
    /\ pc[c] = "Unborn"
    /\ cphase[c] = "stop" \/ (cphase[c] = "closed" /\ inbox[c] # << >>)
    /\ pc' = [pc EXCEPT ![c] = "Start"]
    /\ UNCHANGED << srv, sigint, cphase, inbox, nsent, params, pending, log,
                    result >>
    /\ UNCHANGED kernVars
    /\ UNCHANGED funVars
    /\ UNCHANGED lifeVars

InitLife ==
    /\ srv = "bound"
    /\ SocketBound
    /\ arg = 0
    /\ res = NoMsg

NextLife ==
    \/ Next
    \/ InstallHandlers
    \/ ExternalSignal
    \/ ServerShutdown
    \/ ServerUnwind

SpecLife == InitLife /\ [][NextLife]_vars

NextStop ==
    \/ InstallHandlers
    \/ ExternalSignal
    \/ ServerShutdown
    \/ \E c \in Conns : StopConnect(c)
    \/ \E c \in Conns : StopSend(c)
    \/ \E c \in Conns : AcceptStop(c)
    \/ \E c \in Conns : SessRecvRequest(c)

\* the executor runs the accept loop, the connection tasks and the future
\* of block_on whenever they can make a step
SpecStop ==
    /\ InitLife /\ [][NextStop]_vars
    /\ WF_vars(InstallHandlers)
    /\ WF_vars(ServerShutdown)

\* C13: a Stop request read by a live server makes the server raise SIGINT
\* on itself, with no child spawned for that connection, and the server then
\* terminates, once; a stop command attempted after the server is gone fails
\* at connect and exits 128, and a stop command exits 0 only if it connected
\* and sent to a server that was still there.
C13_StopTerminatesOnce ==
    /\ [](\A c \in Conns :
            HasEv(c, "raise_sigint") =>
                /\ sigint
                /\ proc[c].st = "none"
                /\ ~HasEv(c, "spawn"))
    /\ (sigint ~> srv = "exited_ok")
    /\ [][ (srv \in Exited) => (srv' = srv) ]_vars
    /\ [][ (~Listening /\ stops' # stops /\ cphase' = cphase) =>
               /\ stops' = Append(stops, 128)
               /\ (pc' = pc) /\ (inbox' = inbox) ]_vars
    /\ [][ (stops' # stops /\ stops'[Len(stops')] = 0) => Listening ]_vars

C13_Witness ==
    /\ srv = "exited_ok"
    /\ sigint
    /\ termsig = 0
    /\ stops = << 0, 128 >>

EnvNames == {"PATH", "HOME"}
EnvValues == {"a", "b"}
Environments == UNION { [D -> EnvValues] : D \in SUBSET EnvNames }
EnvLists == UNION { [1..n -> EnvNames \X EnvValues] : n \in 0..MaxEnv }

\* std Command::env: one variable is set or replaced, the rest is kept
CommandEnv(env, k, v) ==
    [x \in DOMAIN env \cup {k} |-> IF x = k THEN v ELSE env[x]]

RECURSIVE CommandEnvs(_, _)
\* child.rs prepare lines 98-102: cmd.env(k, v) for every entry in turn, on
\* a Command that starts from the environment of the server
CommandEnvs(env, list) ==
    IF list = << >> THEN env
    ELSE CommandEnvs(CommandEnv(env, Head(list)[1], Head(list)[2]), Tail(list))

\* child.rs prepare lines 98-102
prepare_env(inherited, list) ==
    IF list # << >> THEN CommandEnvs(inherited, list) ELSE inherited

ChildEnv(f) == [t |-> "env", env |-> f]

InitEnv ==
    /\ ServerStarted
    /\ arg \in [inherited : Environments, env : EnvLists]
    /\ res = NoMsg

PrepareEnv ==
    /\ res = NoMsg
    /\ res' = ChildEnv(prepare_env(arg.inherited, arg.env))
    /\ UNCHANGED << srv, sigint, arg >>
    /\ UNCHANGED lifeVars
    /\ UNCHANGED connVars
    /\ UNCHANGED kernVars

NextEnv == PrepareEnv

SpecEnv == InitEnv /\ [][NextEnv]_vars

\* the variables an env list names, each with the value of its last entry
ListedEnv(list) ==
    LET names == { list[i][1] : i \in 1..Len(list) }
        last(k) == CHOOSE i \in 1..Len(list) :
                       /\ list[i][1] = k
                       /\ \A j \in (i + 1)..Len(list) : list[j][1] # k
    IN  [k \in names |-> list[last(k)][2]]

\* C15: the child's environment is the server's inherited environment when
\* the request's env list is empty, and is exactly the request's env list (a
\* full override, with no inherited variable left) when the list is
\* non-empty.
C15_EnvInheritOrOverride ==
    res # NoMsg =>
        /\ arg.env = << >> => res.env = arg.inherited
        /\ arg.env # << >> => res.env = ListedEnv(arg.env)

(***************************************************************************)
(* C16.  The wire encoding (messages.rs, bincode with its default options: *)
(* fixed-width little-endian integers, u32 variant index, u64 lengths).    *)
(* A type is described by a schema that follows its derive(Serialize) or   *)
(* derive(Deserialize); a value of a struct is the sequence of its fields, *)
(* a value of an enum is [tag, v], a str is the sequence of its bytes.     *)
(***************************************************************************)
T_bool == [k |-> "bool"]
T_u32 == [k |-> "u32"]
T_u64 == [k |-> "u64"]
T_i32 == [k |-> "i32"]
T_str == [k |-> "str"]
T_seq(of) == [k |-> "seq", of |-> of]
T_struct(fields) == [k |-> "struct", fields |-> fields]
T_enum(variants) == [k |-> "enum", variants |-> variants]
T_unit == T_struct(<< >>)

\* messages.rs lines 76-79
ExecHeader == T_struct(<< T_u64 >>)
\* messages.rs lines 81-85: derive(Serialize)
RequestInput == T_enum(<< T_unit, ExecHeader >>)
\* messages.rs lines 87-91: derive(Deserialize)
RequestOutput == T_enum(<< T_unit, ExecHeader >>)
\* messages.rs lines 93-106: derive(Serialize); program, argv, cwd, env,
\* startup, io, pgid, uid, gid, deathsig, connsig
ExecRequestInput ==
    T_struct(<< T_str, T_seq(T_str), T_str,
                T_seq(T_struct(<< T_str, T_str >>)),
                T_struct(<< T_u32 >>), T_struct(<< T_u32 >>),
                T_i32, T_i32, T_i32, T_i32, T_i32 >>)
\* a variant of ExecRequestOutput that declares cwd before argv
ExecRequestOutput_CwdFirst ==
    T_struct(<< T_str, T_str, T_seq(T_str),
                T_seq(T_struct(<< T_str, T_str >>)),
                T_struct(<< T_u32 >>), T_struct(<< T_u32 >>),
                T_i32, T_i32, T_i32, T_i32, T_i32 >>)
\* messages.rs lines 108-121: derive(Deserialize)
ExecRequestOutput ==
    T_struct(<< T_str, T_seq(T_str), T_str,
                T_seq(T_struct(<< T_str, T_str >>)),
                T_struct(<< T_u32 >>), T_struct(<< T_u32 >>),
                T_i32, T_i32, T_i32, T_i32, T_i32 >>)
\* messages.rs lines 123-129: success, message, errno, pid
StartedProcessT == T_struct(<< T_bool, T_str, T_i32, T_i32 >>)
\* messages.rs lines 131-132
SignalT == T_struct(<< T_i32 >>)
\* messages.rs lines 134-139: Undefined, Exit(i32), Signal(i32)
ProcessResultT == T_enum(<< T_unit, T_struct(<< T_i32 >>), T_struct(<< T_i32 >>) >>)

\* n < 2^31 as w little-endian bytes
LeBytes(n, w) ==
    [i \in 1..w |-> IF i > 4 THEN 0 ELSE (n \div Pow2(8 * (i - 1))) % 256]

RECURSIVE Encode(_, _)
RECURSIVE EncodeAll(_, _, _)
RECURSIVE EncodeEach(_, _, _)
\* bincode::serialize_into
Encode(ty, v) ==
    CASE ty.k = "bool" -> << IF v THEN 1 ELSE 0 >>
      [] ty.k = "u32" -> LeBytes(v, 4)
      [] ty.k = "u64" -> LeBytes(v, 8)
      [] ty.k = "i32" -> I32ToBytes(v)
      [] ty.k = "str" -> LeBytes(Len(v), 8) \o v
      [] ty.k = "seq" -> LeBytes(Len(v), 8) \o EncodeEach(ty.of, v, 1)
      [] ty.k = "struct" -> EncodeAll(ty.fields, v, 1)
      [] ty.k = "enum" ->
             LeBytes(v.tag, 4) \o Encode(ty.variants[v.tag + 1], v.v)
\* the fields of a struct, in the order of their declaration
EncodeAll(fields, v, i) ==
    IF i > Len(fields) THEN << >>
    ELSE Encode(fields[i], v[i]) \o EncodeAll(fields, v, i + 1)
\* the elements of a sequence
EncodeEach(of, v, i) ==
    IF i > Len(v) THEN << >>
    ELSE Encode(of, v[i]) \o EncodeEach(of, v, i + 1)

\* the outcome of a decoder: the value and the position after it, or a failure
Decoded(v, p) == [ok |-> TRUE, v |-> v, p |-> p]
DecodeError == [ok |-> FALSE, v |-> << >>, p |-> 0]

\* an unsigned integer of w little-endian bytes at position p; a value the
\* checker's integers cannot hold (2^31 and above) is a DecodeError here
FromLe(b, p, w) ==
    IF p + w - 1 > Len(b) THEN DecodeError
    ELSE IF \E i \in 4..w : b[p + i - 1] # 0 /\ (i > 4 \/ b[p + i - 1] > 127)
         THEN DecodeError
         ELSE Decoded(b[p] + 256 * b[p + 1] + Pow2(16) * b[p + 2]
                        + (IF w >= 4 THEN Pow2(24) * b[p + 3] ELSE 0),
                      p + w)

RECURSIVE Decode(_, _, _)
RECURSIVE DecodeAll(_, _, _, _, _)
RECURSIVE DecodeEach(_, _, _, _, _)
\* bincode::deserialize / deserialize_from: the value of type ty that starts
\* at position p of the bytes b
Decode(ty, b, p) ==
    CASE ty.k = "bool" ->
             IF p > Len(b) \/ b[p] > 1 THEN DecodeError
             ELSE Decoded(b[p] = 1, p + 1)
      [] ty.k = "u32" -> FromLe(b, p, 4)
      [] ty.k = "u64" -> FromLe(b, p, 8)
      [] ty.k = "i32" ->
             IF p + 3 > Len(b) THEN DecodeError
             ELSE Decoded(BytesToI32(SubSeq(b, p, p + 3)), p + 4)
      [] ty.k = "str" ->
             LET n == FromLe(b, p, 8)
             IN  IF ~n.ok \/ n.p + n.v - 1 > Len(b) THEN DecodeError
                 ELSE IF \E i \in n.p..(n.p + n.v - 1) : b[i] > 127
                      THEN DecodeError
                      ELSE Decoded(SubSeq(b, n.p, n.p + n.v - 1), n.p + n.v)
      [] ty.k = "seq" ->
             LET n == FromLe(b, p, 8)
             IN  IF ~n.ok THEN DecodeError
                 ELSE DecodeEach(ty.of, b, n.p, n.v, << >>)
      [] ty.k = "struct" -> DecodeAll(ty.fields, b, p, 1, << >>)
      [] ty.k = "enum" ->
             LET t == FromLe(b, p, 4)
             IN  IF ~t.ok \/ t.v >= Len(ty.variants) THEN DecodeError
                 ELSE LET d == Decode(ty.variants[t.v + 1], b, t.p)
                      IN  IF ~d.ok THEN DecodeError
                          ELSE Decoded([tag |-> t.v, v |-> d.v], d.p)
\* the fields i.. of a struct, after the fields in acc
DecodeAll(fields, b, p, i, acc) ==
    IF i > Len(fields) THEN Decoded(acc, p)
    ELSE LET d == Decode(fields[i], b, p)
         IN  IF ~d.ok THEN DecodeError
             ELSE DecodeAll(fields, b, d.p, i + 1, Append(acc, d.v))
\* n more elements of a sequence, after the elements in acc
DecodeEach(of, b, p, n, acc) ==
    IF n = 0 THEN Decoded(acc, p)
    ELSE LET d == Decode(of, b, p)
         IN  IF ~d.ok THEN DecodeError
             ELSE DecodeEach(of, b, d.p, n - 1, Append(acc, d.v))

\* messages.rs lines 149-156
encode_request(ty, v) == Encode(ty, v)
\* messages.rs lines 158-174: decode_request and decode_request_ref; Err when
\* the bytes are no value of the type
decode_request(ty, b) == Decode(ty, b, 1)

(***************************************************************************)
(* Specification SpecCodec: one message of one of the five wire types      *)
(* (arg) is encoded by the side that sends it and the bytes are decoded by *)
(* the side that receives them (res).  Strings are ASCII.                  *)
(***************************************************************************)
WireTypes == {"Request", "ExecBody", "StartedProcess", "Signal", "ProcessResult"}

\* the type the sender serializes: client.rs 218 and stop.rs 22 (Request),
\* client.rs 238 (ExecBody), server.rs 219 and 240 (StartedProcess),
\* client.rs 112-119 (Signal), server.rs 95 (ProcessResult)
InputType(name) ==
    CASE name = "Request" -> RequestInput
      [] name = "ExecBody" -> ExecRequestInput
      [] name = "StartedProcess" -> StartedProcessT
      [] name = "Signal" -> SignalT
      [] name = "ProcessResult" -> ProcessResultT

\* the type the receiver deserializes: server.rs 153 (Request), server.rs 181
\* (ExecBody), server.rs 128 (Signal); StartedProcess and ProcessResult on
\* the client
OutputType(name) ==
    CASE name = "Request" -> RequestOutput
      [] name = "ExecBody" -> ExecRequestOutput
      [] name = "StartedProcess" -> StartedProcessT
      [] name = "Signal" -> SignalT
      [] name = "ProcessResult" -> ProcessResultT

Strs == { << >>, << 47, 98 >>, << 120 >> }
I32s == { 0, 1, -1, 15, -20, 256, 2147483647, MinI32 }
FlagBits == { 0, 3, 15 }

RequestValues ==
    { [tag |-> 0, v |-> << >>] }
        \cup { [tag |-> 1, v |-> << n >>] : n \in {0, 1, 255, 256, 70000, 2147483647} }

ExecBodyValues ==
    { << program, argv, cwd, env, << startup >>, << io >>,
         pgid, uid, gid, deathsig, connsig >> :
        program \in { << 47, 98 >> },
        argv \in { << >>, << << 120 >> >>, << << 47, 98 >>, << >> >> },
        cwd \in { << >>, << 47 >> },
        env \in { << >>, << << << 120 >>, << >> >> >>,
                  << << << 120 >>, << 47 >> >>, << << 47 >>, << 120 >> >> >> },
        startup \in FlagBits, io \in {0, 5},
        pgid \in {0, -1}, uid \in {-1, 1000}, gid \in {-1, 100},
        deathsig \in {0, 9}, connsig \in {0, 15} }

StartedProcessValues ==
    { << success, message, errno, pid >> :
        success \in BOOLEAN, message \in Strs, errno \in {0, 2, -1},
        pid \in {0, 101, -1} }

SignalValues == { << n >> : n \in I32s }

ProcessResultValues ==
    { [tag |-> 0, v |-> << >>] }
        \cup { [tag |-> t, v |-> << n >>] : t \in {1, 2}, n \in I32s }

ValuesOf(name) ==
    CASE name = "Request" -> RequestValues
      [] name = "ExecBody" -> ExecBodyValues
      [] name = "StartedProcess" -> StartedProcessValues
      [] name = "Signal" -> SignalValues
      [] name = "ProcessResult" -> ProcessResultValues

InitCodec ==
    /\ ServerStarted
    /\ \E name \in WireTypes : arg \in [ty : {name}, v : ValuesOf(name)]
    /\ res = NoMsg

\* the sender encodes arg, the receiver decodes the bytes
RoundTrip ==
    /\ res = NoMsg
    /\ LET bytes == encode_request(InputType(arg.ty), arg.v)
       IN  res' = [t |-> "codec", bytes |-> bytes,
                   out |-> decode_request(OutputType(arg.ty), bytes)]
    /\ UNCHANGED << srv, sigint, arg >>
    /\ UNCHANGED lifeVars
    /\ UNCHANGED connVars
    /\ UNCHANGED kernVars

NextCodec == RoundTrip

SpecCodec == InitCodec /\ [][NextCodec]_vars

\* C16: for every value of Request, ExecBody, StartedProcess, Signal and
\* ProcessResult, decoding the bytes produced by encoding it succeeds,
\* consumes all of the bytes and yields a value equal to the original.
C16_RoundTrip ==
    res # NoMsg => res.out = Decoded(arg.v, Len(res.bytes) + 1)

\* an ExecBody with arguments, environment, flags and a negative pgid went
\* through; and a Signal of -20 travelled as ec ff ff ff
C16_Witness ==
    /\ res # NoMsg
    /\ arg.ty = "ExecBody"
    /\ Len(arg.v[2]) = 2 /\ Len(arg.v[4]) = 2
    /\ arg.v[5] = << 15 >> /\ arg.v[7] = -1
    /\ res.out.ok /\ res.out.v = arg.v
    /\ Encode(SignalT, << -20 >>) = << 236, 255, 255, 255 >>
    /\ Encode(RequestInput, [tag |-> 1, v |-> << 256 >>])
           = << 1, 0, 0, 0, 0, 1, 0, 0, 0, 0, 0, 0 >>

(***************************************************************************)
(* C17.  The client's execute (client.rs 209-254): after the request is    *)
(* sent it receives one datagram, the StartedProcess reply or 0 bytes, and *)
(* then runs wait_child on the same socket.                                *)
(* Specification SpecExecute: arg holds what the server sends (the reply   *)
(* and what the socket yields after it), res is the client's position.     *)
(***************************************************************************)
SpawnErrnos == {1, 2, 13, -1}

\* server.rs 213-240: a success reply carries the pid, a failure reply the
\* errno (or -1) and pid -1; after a failure or a hang-up nothing follows
ServerSends ==
    { [reply |-> StartedProcess(TRUE, 0, PidOf(1)), last |-> a] : a \in LastActs }
        \cup { [reply |-> StartedProcess(FALSE, errno, -1), last |-> HangUp] :
                 errno \in SpawnErrnos }
        \cup { [reply |-> HangUp, last |-> HangUp] }

ClientAt(at) == [t |-> "execute", at |-> at]
ClientReturned(kind, v) == [t |-> "execute", at |-> "returned", kind |-> kind, v |-> v]

\* client.rs 233-253: with received > 0 the reply is decoded and logged, with
\* 0 bytes a warning is logged; both ways go on to wait_child
on_started(reply) ==
    IF reply # HangUp
    THEN ClientAt("wait_child")
    ELSE ClientAt("wait_child")

InitExecute ==
    /\ ServerStarted
    /\ arg \in ServerSends
    /\ res = NoMsg

\* client.rs 227-253: sock.recv completes
ClientRecvStarted ==
    /\ res = NoMsg
    /\ res' = on_started(arg.reply)
    /\ UNCHANGED << srv, sigint, arg >>
    /\ UNCHANGED lifeVars
    /\ UNCHANGED connVars
    /\ UNCHANGED kernVars

\* client.rs 121-160: wait_child resolves on the first item of the read half
ClientRunLoop ==
    /\ res # NoMsg
    /\ res.at = "wait_child"
    /\ res' = ClientReturned("Ok", wait_child(ReadStream(arg.last)))
    /\ UNCHANGED << srv, sigint, arg >>
    /\ UNCHANGED lifeVars
    /\ UNCHANGED connVars
    /\ UNCHANGED kernVars

NextExecute == ClientRecvStarted \/ ClientRunLoop

SpecExecute == InitExecute /\ [][NextExecute]_vars

\* C17: the client acts on the StartedProcess reply before the run loop: on
\* success = false it returns the reply's errno as an OS error, on a hang-up
\* (0 bytes) it returns 128, and it is in the signal-relay run loop only when
\* success is true.
C17_ActsOnStartedReply ==
    res # NoMsg =>
        /\ (arg.reply # HangUp /\ ~arg.reply.success) =>
               res = ClientReturned("Err", arg.reply.errno)
        /\ (arg.reply = HangUp /\ res.at = "returned") =>
               res = ClientReturned("Ok", 128)
        /\ res.at = "wait_child" =>
               (arg.reply # HangUp /\ arg.reply.success)

(***************************************************************************)
(* C18, C19.  The client's signal relay (client.rs wait_child): the pump   *)
(* of caught signals is mapped to wire values and forwarded into the sink  *)
(* SinkAfterSent(UnixPacketFramed), whose callback is handle_stop.         *)
(* Specification SpecRelay: arg is the sequence of signals the client      *)
(* catches, res the state of the relay.                                    *)
(***************************************************************************)
SIGCONT == 18
SIGSTOP == 19
SIGTTIN == 21
SIGTTOU == 22

\* a variant that leaves SIGCONT and SIGSTOP positive
convert_to_group_signals_TtyOnly(signal) ==
    IF signal \in {SIGTSTP, SIGTTIN, SIGTTOU} THEN 0 - signal ELSE signal

\* client.rs 112-119
convert_to_group_signals(signal) ==
    IF signal \in {SIGTSTP, SIGSTOP, SIGCONT, SIGTTIN, SIGTTOU}
    THEN 0 - signal
    ELSE signal

\* client.rs 27-43: the signals the pump is made of (signal_hook refuses
\* SIGKILL and SIGSTOP among others), a choice of them
PumpSignals == {SIGINT, SIGTERM, SIGCONT, SIGTSTP, SIGTTIN, SIGTTOU}
Bursts == UNION { [1..n -> PumpSignals] : n \in 1..MaxBurst }

\* one datagram: buf is the write buffer handed to send, n the number of
\* encoded items in it, v the first of them
RelaySent(buf) == [ev |-> "sent", v |-> buf[1], n |-> Len(buf)]
RelayRaised(sig) == [ev |-> "raise", v |-> sig]
Polled(isReady, st) == [ready |-> isReady, st |-> st]

\* arrived: signals caught so far; polled: signals taken from the pump;
\* buffered: Forward's item in waiting; val: SinkAfterSent.val; write and
\* flushed: UnixPacketFramed's; events: datagrams sent and signals raised.
\* 0 is no item (no signal has the number 0).
RelayStart ==
    [t |-> "relay", arrived |-> 0, polled |-> 0, buffered |-> 0, val |-> 0,
     write |-> << >>, flushed |-> TRUE, events |-> << >>]

\* net/framed.rs 74-113: UnixPacketFramed::poll_complete; w: the socket
\* takes a datagram now
framed_poll_complete(st, w) ==
    IF st.flushed THEN Polled(TRUE, st)
    ELSE IF ~w THEN Polled(FALSE, st)
    ELSE Polled(TRUE, [st EXCEPT !.events = Append(@, RelaySent(st.write)),
                                 !.write = << >>, !.flushed = TRUE])

\* a variant of start_send that encodes the item without flushing the one
\* before it
framed_start_send_NoFlush(st, item, w) ==
    Polled(TRUE, [st EXCEPT !.write = Append(@, item), !.flushed = FALSE])

\* net/framed.rs 59-72: UnixPacketFramed::start_send; encode appends the
\* item to the write buffer
framed_start_send(st, item, w) ==
    LET c == IF ~st.flushed THEN framed_poll_complete(st, w)
             ELSE Polled(TRUE, st)
    IN  IF ~c.ready THEN Polled(FALSE, c.st)
        ELSE Polled(TRUE, [c.st EXCEPT !.write = Append(@, item),
                                       !.flushed = FALSE])

\* client.rs 96-110
handle_stop(st, sigval) ==
    IF Abs(sigval) \in {SIGTSTP, SIGSTOP}
    THEN [st EXCEPT !.events = Append(@, RelayRaised(SIGSTOP))]
    ELSE st

\* client.rs 69-81: SinkAfterSent::start_send
SinkAfterSent_start_send(st, item, w) ==
    LET r == framed_start_send(st, item, w)
    IN  IF r.ready THEN Polled(TRUE, [r.st EXCEPT !.val = item]) ELSE r

\* client.rs 83-93: SinkAfterSent::poll_complete
SinkAfterSent_poll_complete(st, w) ==
    LET r == framed_poll_complete(st, w)
    IN  IF r.ready /\ r.st.val # 0
        THEN Polled(TRUE, [handle_stop(r.st, r.st.val) EXCEPT !.val = 0])
        ELSE r

\* futures 0.1 Forward::try_start_send
try_start_send(st, item, w) ==
    LET r == SinkAfterSent_start_send(st, item, w)
    IN  IF r.ready THEN r ELSE Polled(FALSE, [r.st EXCEPT !.buffered = item])

RECURSIVE forward_loop(_, _, _)
\* futures 0.1 Forward::poll, its loop: items are taken from the mapped pump
\* (client.rs 131-134) while there are any, then the sink is flushed
forward_loop(pump, st, w) ==
    IF st.polled < st.arrived
    THEN LET item == convert_to_group_signals(pump[st.polled + 1])
             r == try_start_send([st EXCEPT !.polled = @ + 1], item, w)
         IN  IF r.ready THEN forward_loop(pump, r.st, w) ELSE r.st
    ELSE SinkAfterSent_poll_complete(st, w).st

\* futures 0.1 Forward::poll: the buffered item goes first
forward_poll(pump, st, w) ==
    IF st.buffered # 0
    THEN LET r == try_start_send([st EXCEPT !.buffered = 0], st.buffered, w)
         IN  IF r.ready THEN forward_loop(pump, r.st, w) ELSE r.st
    ELSE forward_loop(pump, st, w)

InitRelay ==
    /\ ServerStarted
    /\ arg \in Bursts
    /\ res = RelayStart

\* the client catches its next signal
SignalArrives ==
    /\ res.arrived < Len(arg)
    /\ res' = [res EXCEPT !.arrived = @ + 1]
    /\ UNCHANGED << srv, sigint, arg >>
    /\ UNCHANGED lifeVars
    /\ UNCHANGED connVars
    /\ UNCHANGED kernVars

\* the run loop is polled: a signal is waiting in the pump, or the sink
\* waits for the socket
ForwardPoll(w) ==
    /\ res.polled < res.arrived \/ res.buffered # 0 \/ ~res.flushed
    /\ res' = forward_poll(arg, res, w)
    /\ UNCHANGED << srv, sigint, arg >>
    /\ UNCHANGED lifeVars
    /\ UNCHANGED connVars
    /\ UNCHANGED kernVars

NextRelay == SignalArrives \/ \E w \in BOOLEAN : ForwardPoll(w)

SpecRelay == InitRelay /\ [][NextRelay]_vars

RelaySends == SelectSeq(res.events, LAMBDA x : x.ev = "sent")
StopSignals == {SIGTSTP, SIGSTOP}

\* C18: each signal taken from the pump is sent as its wire value: SIGTSTP,
\* SIGSTOP, SIGCONT, SIGTTIN and SIGTTOU as the negated signal number, every
\* other signal as the positive signal number; the datagrams go out in the
\* order of the pump.
C18_WireValueOfSignal ==
    /\ \A s \in 1..MaxSignal :
           convert_to_group_signals(s) =
               IF s \in {20, 19, 18, 21, 22} THEN 0 - s ELSE s
    /\ Len(RelaySends) <= res.polled
    /\ \A k \in 1..Len(RelaySends) :
           RelaySends[k].v =
               IF arg[k] \in {20, 19, 18, 21, 22} THEN 0 - arg[k] ELSE arg[k]

C18_Witness ==
    /\ Len(arg) = 2 /\ arg[1] = SIGCONT /\ arg[2] = SIGINT
    /\ Len(RelaySends) = 2
    /\ RelaySends[1].v = 0 - 18 /\ RelaySends[2].v = 2

\* C19: for every SIGTSTP or SIGSTOP the client forwards it raises SIGSTOP on
\* itself exactly once, after the send of that signal's datagram has
\* completed and not before, also when signals arrive in a burst: in the
\* order of events every datagram of a stop signal is directly followed by
\* one raise, and a raise directly follows such a datagram.
C19_StopRaisedAfterSend ==
    \A i \in 1..Len(res.events) :
        /\ (res.events[i].ev = "sent" /\ Abs(res.events[i].v) \in StopSignals) =>
               /\ i < Len(res.events)
               /\ res.events[i + 1] = RelayRaised(SIGSTOP)
        /\ res.events[i].ev = "raise" =>
               /\ i > 1
               /\ res.events[i - 1].ev = "sent"
               /\ Abs(res.events[i - 1].v) \in StopSignals

(***************************************************************************)
(* C20.  A failed read of the client socket while the child runs.          *)
(***************************************************************************)
\* what the task does once its read has failed, with toGroup saying whether
\* the signal is for the child's group
ErrorDelivery(c, toGroup) ==
    LET ks == KillsFrom(c, FirstEv(c, "recv_err")) IN
    /\ Cardinality(Delivered(ks)) <= 1
    /\ Len(ks) >= 1
    /\ \A i \in 1..Len(ks) :
           ks[i].pid = PidOf(c) /\ ks[i].sig = params[c].connsig
    /\ ks[1].op = IF toGroup THEN "killpg" ELSE "kill"
    /\ SentOfType(c, "ProcessResult") = {}
    /\ pc[c] = "Done" => (HasEv(c, "reaped") /\ result[c] = "Ok")

\* C20: when the server's read of the client socket fails in Running, the
\* server behaves as for EOF: it sends the request's connsig to the child
\* (its group if the child is a group leader, else the process), waits for
\* the child's exit notification and closes without sending a
\* ProcessResult.  Stated for the requests whose connsig names a signal.
C20_ReadErrorAsEof ==
    \A c \in Conns :
        (HasEv(c, "recv_err") /\ ValidSignal(params[c].connsig)) =>
            ErrorDelivery(c, GroupLeader(params[c].startup))

(***************************************************************************)
(* C21.  The two waits of handle_child (server.rs 76-137).                 *)
(* Specification SpecSelect: one connection whose client, once its request *)
(* is sent, sends Signal datagrams for as long as it likes, as fast as the *)
(* socket takes them.  A round of the loop is one action, so that which    *)
(* wait wins is decided by select and not by the scheduler; the signals    *)
(* relayed in Running are not written to the log here, the rounds being    *)
(* without bound.                                                          *)
(***************************************************************************)
\* a variant of select that looks at its second future first
select_RightFirst(leftReady, rightReady) ==
    IF rightReady THEN "Right"
    ELSE IF leftReady THEN "Left"
    ELSE "Pending"

\* futures select(child, signal), server.rs line 81: the first future is
\* polled first, the second only when the first is pending
select(leftReady, rightReady) ==
    IF leftReady THEN "Left"
    ELSE IF rightReady THEN "Right"
    ELSE "Pending"

\* the client sends one more Signal datagram
ClientSendSignalAgain(c) ==
    /\ cphase[c] = "sigs"
    /\ Len(inbox[c]) < MaxInbox
    /\ \E v \in SigVals : inbox' = [inbox EXCEPT ![c] = Append(@, [k |-> "Sig", v |-> v])]
    /\ UNCHANGED << srv, sigint, pc, cphase, nsent, params, pending, log, result >>
    /\ UNCHANGED kernVars
    /\ UNCHANGED funVars
    /\ UNCHANGED lifeVars

\* server.rs handle_child lines 126-131 and 134-135: the datagram is
\* decoded and passed on, the child is carried over and the read re-armed
RelaySignal(c) ==
    /\ inbox[c] # << >>
    /\ Head(inbox[c]).k = "Sig"
    /\ inbox' = [inbox EXCEPT ![c] = Tail(@)]
    /\ UNCHANGED << srv, sigint, pc, cphase, nsent, params, pending, log, result >>
    /\ UNCHANGED kernVars
    /\ UNCHANGED funVars
    /\ UNCHANGED lifeVars

\* server.rs handle_child lines 80-136: one round of the loop
HandleChildRound(c) ==
    /\ srv = "running"
    /\ pc[c] = "Running"
    /\ LET selected == select(ready[c], inbox[c] # << >>) IN
         \/ /\ selected = "Left"
            /\ RunChildExit(c)
         \/ /\ selected = "Right"
            /\ RelaySignal(c)

NextSelect ==
    \/ \E c \in Single : Accept(c)
    \/ \E c \in Single : ClientSendHeader(c)
    \/ \E c \in Single : ClientSendBody(c)
    \/ \E c \in Single : ClientSendSignalAgain(c)
    \/ \E c \in Single : SessRecvRequest(c)
    \/ \E c \in Single : SessRecvBody(c)
    \/ \E c \in Single : SessSendStarted(c)
    \/ \E c \in Single : SessSendFailure(c)
    \/ \E c \in Single : HandleChildRound(c)
    \/ \E c \in Single : SessSendResult(c)
    \/ \E c \in Single : ChildTerminate(c)
    \/ \E c \in Single : ReactorObserve(c)
    \/ WatcherDrain

\* the executor runs the watcher task and every task that was woken; the
\* client is under no obligation
SpecSelect ==
    /\ Init
    /\ [][NextSelect]_vars
    /\ WF_vars(WatcherDrain)
    /\ \A c \in Single : WF_vars(ReactorObserve(c))
    /\ \A c \in Single : WF_vars(HandleChildRound(c))
    /\ \A c \in Single : WF_vars(SessSendResult(c))

ConnOf(pid) == pid - 100
Children == { c \in Conns : proc[c].st \in {"running", "zombie"} }

WaitpidPid(c) == [res |-> PidOf(c), errno |-> "", status |-> proc[c].status]
WaitpidError(errno) == [res |-> -1, errno |-> errno, status |-> 0]
WaitpidNone == [res |-> 0, errno |-> "", status |-> 0]

RECURSIVE Interleave(_, _, _)
\* the answers for the zombies in order, eintr[i] EINTRs ahead of the i-th
\* answer, the last one being 0 (children are left) or ECHILD (none is)
Interleave(order, eintr, i) ==
    [j \in 1..eintr[i] |-> WaitpidError("EINTR")]
        \o (IF i > Len(order)
            THEN << IF Children \ Zombies # {} THEN WaitpidNone
                    ELSE WaitpidError("ECHILD") >>
            ELSE << WaitpidPid(order[i]) >> \o Interleave(order, eintr, i + 1))

\* waitpid(-1, &status, WNOHANG), call after call, as the kernel may answer
WaitpidReturns ==
    { Interleave(order, eintr, 1) :
        order \in { f \in [1..Cardinality(Zombies) -> Zombies] : IsInjective(f) },
        eintr \in [1..(Cardinality(Zombies) + 1) -> 0..MaxEintr] }

\* a variant that ends the drain on EINTR
waitpid_match_EintrBreaks(r) ==
    IF r.res = -1 THEN "break"
    ELSE IF r.res = 0 THEN "break"
    ELSE "notify"

\* child_watcher.rs listen lines 142-150: match res
waitpid_match(r) ==
    IF r.res = -1
    THEN (IF r.errno = "EINTR" THEN "continue"
          ELSE IF r.errno = "ECHILD" THEN "break"
          ELSE "panic")
    ELSE IF r.res = 0 THEN "break"
    ELSE "notify"

\* child_watcher.rs Watchers::notify lines 50-55 and send: the entry of the
\* pid, if there is one, is removed and the status written to its stream
watchers_notify(st, pid, status) ==
    IF pid \in st.storage
    THEN [st EXCEPT !.storage = @ \ {pid},
                    !.pipe[ConnOf(pid)] = @ \o I32ToBytes(status),
                    !.writes = Append(@, [handle |-> ConnOf(pid), pid |-> pid,
                                          status |-> status])]
    ELSE st

RECURSIVE listen_loop(_, _, _)
\* child_watcher.rs listen lines 131-151: the inner loop, on the answers
\* returns[i..]
listen_loop(returns, i, st) ==
    LET r == returns[i]
        m == waitpid_match(r)
    IN  IF m = "continue" THEN listen_loop(returns, i + 1, st)
        ELSE IF m = "notify"
             THEN listen_loop(returns, i + 1,
                              [watchers_notify(st, r.res, r.status)
                                   EXCEPT !.reaped = @ \cup {ConnOf(r.res)}])
             ELSE [st EXCEPT !.calls = i, !.stop = m]

\* child_watcher.rs listen: sig.recv() yields once, then the inner loop
ListenDrain ==
    /\ srv = "running"
    /\ sigchld
    /\ sigchld' = FALSE
    /\ \E returns \in WaitpidReturns :
         LET st == listen_loop(returns, 1,
                               [storage |-> storage, pipe |-> pipe,
                                writes |-> << >>, reaped |-> {}, calls |-> 0,
                                stop |-> ""])
         IN  /\ proc' = [c \in Conns |->
                           IF c \in st.reaped THEN [proc[c] EXCEPT !.st = "reaped"]
                           ELSE proc[c]]
             /\ storage' = st.storage
             /\ pipe' = st.pipe
             /\ res' = [t |-> "drain", returns |-> returns, before |-> storage,
                        calls |-> st.calls, stop |-> st.stop,
                        writes |-> st.writes]
    /\ UNCHANGED << srv, sigint, ready, arg >>
    /\ UNCHANGED connVars
    /\ UNCHANGED lifeVars

NextDrain ==
    \/ \E c \in Conns : Register(c)
    \/ \E c \in Conns : InheritedChild(c)
    \/ \E c \in Conns : ChildTerminate(c)
    \/ \E c \in Conns : ReactorObserve(c)
    \/ \E c \in Conns : ChildReady(c)
    \/ ListenDrain

SpecDrain == Init /\ [][NextDrain]_vars

\* the answers of a drain that named a pid, and those of them whose pid was
\* registered when the drain began
PidReturns(d) == SelectSeq(d.returns, LAMBDA r : r.res > 0)
RegisteredReturns(d) == SelectSeq(d.returns, LAMBDA r : r.res \in d.before)

\* C22: when several children are zombies as one SIGCHLD is handled, the one
\* drain reaps all of them; each registered one gets its own wait-status on
\* its own handle, in the order in which waitpid returned the pids; the
\* drain stops only on 0 or ECHILD, EINTR repeating the iteration.
C22_DrainReapsAll ==
    /\ [](res # NoMsg =>
            /\ res.calls = Len(res.returns)
            /\ res.stop = "break"
            /\ res.returns[res.calls].res = 0
                   \/ res.returns[res.calls].errno = "ECHILD"
            /\ Len(res.writes) = Len(RegisteredReturns(res))
            /\ \A k \in 1..Len(res.writes) :
                   /\ res.writes[k].pid = RegisteredReturns(res)[k].res
                   /\ res.writes[k].status = RegisteredReturns(res)[k].status
                   /\ res.writes[k].handle = ConnOf(res.writes[k].pid))
    /\ [][ (sigchld /\ ~sigchld') =>
             /\ Zombies' = {}
             /\ \A c \in Zombies :
                    /\ proc'[c].st = "reaped"
                    /\ PidOf(c) \in storage =>
                           pipe'[c] = pipe[c] \o I32ToBytes(proc[c].status) ]_vars

\* two zombies, both registered, reaped by one drain that met an EINTR
C22_Witness ==
    /\ res # NoMsg
    /\ Len(PidReturns(res)) = 2
    /\ Len(res.writes) = 2
    /\ \E k \in 1..Len(res.returns) : res.returns[k].errno = "EINTR"
    /\ res.writes[1].pid = PidOf(2) /\ res.writes[2].pid = PidOf(1)

(***************************************************************************)
(* C23.  The watcher's pid table.                                          *)
(***************************************************************************)
\* the connection of c is gone: its task has returned and dropped the Child
ConnectionGone(c) == pc[c] = "Done"

\* C23: the watcher's pid table holds one entry per live registered pid:
\* the entry is there from the spawn on, and it is gone once the reaper has
\* delivered the status or once the owning connection has ended; no entry
\* exists for a pid whose connection is gone.
C23_EntryPerLiveRegisteredPid ==
    \A c \in Conns :
        /\ PidOf(c) \in storage =>
               /\ proc[c].st \in {"running", "zombie"}
               /\ ~ConnectionGone(c)
        /\ (params[c].spawned /\ proc[c].st \in {"running", "zombie"}
                /\ ~ConnectionGone(c)) =>
               PidOf(c) \in storage

(***************************************************************************)
(* C24.  SIGINT or SIGTERM while connections are in Running.               *)
(***************************************************************************)
\* the task of c is in Running (waiting for the child or the client, or about
\* to answer one of them) and has not returned
TaskUnfinished(c) == pc[c] \in {"Running", "Reaping", "SendResult"}

\* C24: when the server receives SIGINT or SIGTERM while connections are in
\* Running, their tasks are not cut off: the server is not gone before each
\* of them has reached its Terminal state, and the shutdown itself sends no
\* signal to any child.
C24_RunningTasksComplete ==
    /\ [](srv = "exited_ok" => \A c \in Conns : ~TaskUnfinished(c))
    /\ [][ (srv = "running" /\ srv' = "exited_ok") => log' = log ]_vars

(***************************************************************************)
(* C25, C26.  Errors of one connection and the rest of the server.         *)
(* Specification SpecTwo: the connection of Spec with everything that can  *)
(* happen to it, and beside it a second client that connects, sends its    *)
(* request header or closes, and whose task reads that header.             *)
(***************************************************************************)
Other == Conns \ Single

NextTwo ==
    \/ Next
    \/ \E c \in Other : Accept(c)
    \/ \E c \in Other : ClientSendHeader(c)
    \/ \E c \in Other : ClientClose(c)
    \/ \E c \in Other : SessRecvRequest(c)

SpecTwo == Init /\ [][NextTwo]_vars

\* the task of c ends with an error in this step
EndsWithError(c) == pc[c] # "Done" /\ pc'[c] = "Done" /\ result'[c] = "Err"

\* what belongs to connection d and to its child is as it was
Untouched(d) ==
    /\ pc'[d] = pc[d] /\ result'[d] = result[d] /\ log'[d] = log[d]
    /\ params'[d] = params[d] /\ pending'[d] = pending[d]
    /\ inbox'[d] = inbox[d] /\ cphase'[d] = cphase[d]
    /\ proc'[d] = proc[d] /\ pipe'[d] = pipe[d] /\ ready'[d] = ready[d]
    /\ (PidOf(d) \in storage') = (PidOf(d) \in storage)

\* C25: a transport error on one connection (a failed recv or send) ends
\* only that connection's task: the server goes on running, the accept loop
\* still takes a client that connects, the watcher still handles SIGCHLD,
\* and the state and the children of every other connection are unchanged.
C25_ErrorEndsOneTask ==
    /\ [][ \A c \in Conns :
             EndsWithError(c) =>
                 /\ srv' = "running"
                 /\ sigchld' = sigchld /\ sigint' = sigint
                 /\ \A d \in Conns \ {c} : Untouched(d) ]_vars
    /\ [](srv = "running" =>
            /\ \A d \in Conns :
                   (pc[d] = "Unborn" /\ cphase[d] = "none") => ENABLED Accept(d)
            /\ sigchld => ENABLED WatcherDrain)

\* the first connection has failed in Running and the second was accepted
\* and is being served
C25_Witness ==
    /\ srv = "running"
    /\ pc[1] = "Done" /\ result[1] = "Err" /\ HasEv(1, "spawn")
    /\ pc[2] = "RecvBody"

\* the task of c takes a datagram that cannot be decoded
ReadsUndecodable(c) ==
    /\ inbox[c] # << >>
    /\ Head(inbox[c]).k = "bad"
    /\ inbox'[c] = Tail(inbox[c])

\* C26: a datagram that cannot be decoded (the request header, the Exec
\* body, a Signal datagram in Running) is fatal for its connection only:
\* the task ends with an error, no child is spawned from it and no signal
\* is sent for it, nothing more is read from that connection, and the
\* server and the other connections are as they were.
C26_UndecodableIsFatal ==
    /\ [][ \A c \in Conns :
             ReadsUndecodable(c) =>
                 /\ pc'[c] = "Done" /\ result'[c] = "Err"
                 /\ log'[c] = log[c] \o << Ev("close") >>
                 /\ proc' = proc /\ storage' = storage
                 /\ srv' = "running"
                 /\ \A d \in Conns \ {c} : Untouched(d) ]_vars
    /\ [][ \A c \in Conns :
             pc[c] = "Done" =>
                 /\ pc'[c] = "Done"
                 /\ IsPrefixOf(inbox[c], inbox'[c]) ]_vars

\* an undecodable Signal datagram ended the first connection in Running
\* while the second was being served
C26_Witness ==
    /\ pc[1] = "Done" /\ result[1] = "Err"
    /\ SentTypes(1) = << "StartedProcess" >>
    /\ ~HasEv(1, "recv_err") /\ ~HasEv(1, "eof") /\ ~HasEv(1, "shutdown_read")
    /\ cphase[1] = "sigs"
    /\ pc[2] = "RecvBody"

(***************************************************************************)
(* C27.  The pre-exec closure of the child (child.rs prepare, 62-96).      *)
(* Specification SpecPreExec: arg is a request (its startup flags, its     *)
(* deathsig), whether the parent is gone by the time the child looks, and  *)
(* the call that the kernel refuses, if any; res is what the forked child  *)
(* did before execve.                                                      *)
(***************************************************************************)
\* the fifth startup flag of the protocol, which client.rs line 176 sets;
\* messages.rs StartMode (9-17) declares no such flag
CONTROLLING_TERMINAL == "CONTROLLING_TERMINAL"
StartupFlags == {PROCESS_GROUP, SESSION, DETACH_TERMINAL, NOHUP, CONTROLLING_TERMINAL}

\* the system calls of the closure: prctl(PR_SET_PDEATHSIG), ioctl(TIOCNOTTY)
\* on /dev/tty, setpgid(0, pgid), setsid(), ioctl(0, TIOCSCTTY),
\* signal(SIGHUP, SIG_IGN)
PreExecCalls == << "prctl", "tiocnotty", "setpgid", "setsid", "tiocsctty", "sighup" >>
PreExecRequests ==
    [startup : SUBSET StartupFlags, deathsig : {0, SIGTERM},
     parentChanged : BOOLEAN,
     fail : {"none"} \cup { PreExecCalls[i] : i \in 1..Len(PreExecCalls) }]

PreExecDone(steps, outcome) == [t |-> "pre_exec", steps |-> steps, outcome |-> outcome]

\* child.rs prepare lines 72-93: the conditions of the closure in the order
\* of its statements, each with the call it guards
closure_statements(req) ==
    << [on |-> ValidSignal(req.deathsig), call |-> "prctl"],
       [on |-> DETACH_TERMINAL \in req.startup, call |-> "tiocnotty"],
       [on |-> PROCESS_GROUP \in req.startup, call |-> "setpgid"],
       [on |-> SESSION \in req.startup, call |-> "setsid"],
       [on |-> NOHUP \in req.startup, call |-> "sighup"] >>

RECURSIVE run_closure(_, _, _, _)
\* the closure runs its statements from the i-th on: `?` returns the error
\* of a refused call, kill_self_if_parent_exits (child.rs 43-52) exits with
\* 128 when the parent is not the server any more
run_closure(stmts, i, steps, req) ==
    IF i > Len(stmts) THEN PreExecDone(steps, "exec")
    ELSE IF ~stmts[i].on THEN run_closure(stmts, i + 1, steps, req)
    ELSE IF stmts[i].call = req.fail
         THEN PreExecDone(Append(steps, stmts[i].call), "spawn_error")
    ELSE IF stmts[i].call = "prctl" /\ req.parentChanged
         THEN PreExecDone(Append(steps, stmts[i].call), "exit_128")
    ELSE run_closure(stmts, i + 1, Append(steps, stmts[i].call), req)

pre_exec(req) == run_closure(closure_statements(req), 1, << >>, req)

InitPreExec ==
    /\ ServerStarted
    /\ arg \in PreExecRequests
    /\ res = NoMsg

\* fork, then the closure in the child
PreExec ==
    /\ res = NoMsg
    /\ res' = pre_exec(arg)
    /\ UNCHANGED << srv, sigint, arg >>
    /\ UNCHANGED lifeVars
    /\ UNCHANGED connVars
    /\ UNCHANGED kernVars

NextPreExec == PreExec

SpecPreExec == InitPreExec /\ [][NextPreExec]_vars

\* whether a request asks for a call
Requested(req, call) ==
    CASE call = "prctl" -> ValidSignal(req.deathsig)
      [] call = "tiocnotty" -> DETACH_TERMINAL \in req.startup
      [] call = "setpgid" -> PROCESS_GROUP \in req.startup
      [] call = "setsid" -> SESSION \in req.startup
      [] call = "tiocsctty" -> CONTROLLING_TERMINAL \in req.startup
      [] call = "sighup" -> NOHUP \in req.startup

\* the calls a request asks for, in the order of PreExecCalls
RequestedCalls(req) == SelectSeq(PreExecCalls, LAMBDA call : Requested(req, call))

\* C27: the pre-exec actions run in this exact order, each only when
\* requested: parent-death signal (exit 128 if the parent already changed),
\* detach from /dev/tty, setpgid(0, pgid), setsid(), take stdin's tty as
\* controlling terminal, ignore SIGHUP; the first call that fails makes the
\* spawn fail with its error and nothing runs after it.
C27_PreExecOrder ==
    res # NoMsg =>
        LET want == RequestedCalls(arg)
            ends == { i \in 1..Len(want) :
                        \/ want[i] = arg.fail
                        \/ want[i] = "prctl" /\ arg.parentChanged }
        IN  IF ends = {}
            THEN res = PreExecDone(want, "exec")
            ELSE LET i == CHOOSE k \in ends : \A j \in ends : k <= j
                 IN  res = PreExecDone(SubSeq(want, 1, i),
                                       IF want[i] = arg.fail THEN "spawn_error"
                                       ELSE "exit_128")

(***************************************************************************)
(* C28.  The readiness-based operations (raw/reactor.rs, raw/ops.rs,       *)
(* raw/accept.rs, raw/fdtransfer.rs).                                      *)
(* Specification SpecPoll: arg is an operation on a descriptor, what the   *)
(* reactor knows of its readiness, and what the kernel answers to the      *)
(* system call each time it is made; res is the outcome of one poll.       *)
(***************************************************************************)
PollOps == {"read", "write", "recv", "send", "recvmsg", "sendmsg", "accept"}
OsAnswers == {"Ok", "EWOULDBLOCK", "EINTR", "ECONNRESET"}
\* the kernel's answers to the call, made once or again; a call is not
\* interrupted for ever
AnswerSeqs ==
    { a \in UNION { [1..n -> OsAnswers] : n \in 1..2 } : a[Len(a)] # "EINTR" }
PollInputs ==
    [op : PollOps, answers : AnswerSeqs, rready : BOOLEAN, wready : BOOLEAN]

PollOutcome(out, errno, calls, rready, wready) ==
    [t |-> "poll", out |-> out, errno |-> errno, calls |-> calls,
     rready |-> rready, wready |-> wready]

\* raw/reactor.rs Events::poll_read lines 54-72
poll_read(in) ==
    IF ~in.rready
    THEN PollOutcome("Pending", "", 0, in.rready, in.wready)
    ELSE IF in.answers[1] = "EWOULDBLOCK"
         THEN PollOutcome("Pending", "", 1, FALSE, in.wready)
    ELSE IF in.answers[1] # "Ok"
         THEN PollOutcome("Err", in.answers[1], 1, in.rready, in.wready)
    ELSE PollOutcome("Ok", "", 1, in.rready, in.wready)

\* raw/reactor.rs Events::poll_read_maybe lines 74-96, for an accept that
\* returns a descriptor
poll_read_maybe(in) ==
    IF ~in.rready
    THEN PollOutcome("Pending", "", 0, in.rready, in.wready)
    ELSE IF in.answers[1] = "EWOULDBLOCK"
         THEN PollOutcome("Pending", "", 1, FALSE, in.wready)
    ELSE IF in.answers[1] # "Ok"
         THEN PollOutcome("Err", in.answers[1], 1, in.rready, in.wready)
    ELSE PollOutcome("Ok", "", 1, in.rready, in.wready)

\* raw/reactor.rs Events::poll_write lines 98-115
poll_write(in) ==
    IF ~in.wready
    THEN PollOutcome("Pending", "", 0, in.rready, in.wready)
    ELSE IF in.answers[1] = "EWOULDBLOCK"
         THEN PollOutcome("Pending", "", 1, in.rready, FALSE)
    ELSE IF in.answers[1] # "Ok"
         THEN PollOutcome("Err", in.answers[1], 1, in.rready, in.wready)
    ELSE PollOutcome("Ok", "", 1, in.rready, in.wready)

\* raw/ops.rs do_poll of Read (21-23), Write (37-40), Recv (57-60) and Send
\* (75-78); raw/accept.rs do_next (55-60); raw/fdtransfer.rs do_poll of
\* SendFds (60-65) and RecvFds (95-113)
do_poll(in) ==
    CASE in.op \in {"read", "recv"} -> poll_read(in)
      [] in.op = "accept" -> poll_read_maybe(in)
      [] in.op \in {"write", "send", "sendmsg"} -> poll_write(in)
      [] in.op = "recvmsg" -> poll_write(in)

InitPoll ==
    /\ ServerStarted
    /\ arg \in PollInputs
    /\ res = NoMsg

\* the future of the operation is polled once
PollOnce ==
    /\ res = NoMsg
    /\ res' = do_poll(arg)
    /\ UNCHANGED << srv, sigint, arg >>
    /\ UNCHANGED lifeVars
    /\ UNCHANGED connVars
    /\ UNCHANGED kernVars

NextPoll == PollOnce

SpecPoll == InitPoll /\ [][NextPoll]_vars

\* the readiness an operation waits for
Reads(op) == op \in {"read", "recv", "recvmsg", "accept"}
\* the first answer that is not EINTR
FirstAnswer(a) == a[CHOOSE i \in 1..Len(a) :
                      a[i] # "EINTR" /\ \A j \in 1..(i - 1) : a[j] = "EINTR"]

\* C28: every readiness-based operation (read, write, recv, send, recvmsg,
\* sendmsg, accept) takes EAGAIN/EWOULDBLOCK for not ready (its readiness
\* cleared, the operation pending), makes the call again on EINTR without
\* showing it to the caller, and hands every other OS error to the caller.
C28_ErrorPolicy ==
    res # NoMsg =>
        LET isReady == IF Reads(arg.op) THEN arg.rready ELSE arg.wready
            a == FirstAnswer(arg.answers)
        IN  /\ ~isReady => res.out = "Pending" /\ res.calls = 0
            /\ (isReady /\ a = "EWOULDBLOCK") =>
                   /\ res.out = "Pending"
                   /\ IF Reads(arg.op) THEN ~res.rready ELSE ~res.wready
            /\ (isReady /\ a = "Ok") => res.out = "Ok"
            /\ (isReady /\ a \notin {"Ok", "EWOULDBLOCK"}) =>
                   res.out = "Err" /\ res.errno = a
            /\ ~(res.out = "Err" /\ res.errno = "EINTR")

(***************************************************************************)
(* C29.  The descriptor handle Fd (raw/fd.rs).                             *)
(* Specification SpecFd: arg is the process's descriptor table and the     *)
(* live handles (a handle is named by the number it holds); res is the     *)
(* outcome of the last operation on a handle.                              *)
(***************************************************************************)
MaxFds == 4
FdNums == 3..(2 + MaxFds)
FdOps == {"drop", "close", "forget", "into_raw"}

\* close(2): the number is released; -1 (EBADF) when it names nothing
libc_close(open, n) ==
    [open |-> open \ {n}, ret |-> IF n \in open THEN 0 ELSE -1]

\* raw/fd.rs impl Drop for Fd lines 35-39; w is the table with the count of
\* close calls made
Fd_drop(w, n) ==
    [open |-> libc_close(w.open, n).open, closes |-> w.closes + 1]

\* raw/fd.rs into_raw lines 17-19: the number is read out of self, and self,
\* taken by value, is dropped when the function returns
Fd_into_raw(w, n) == [w |-> Fd_drop(w, n), raw |-> n]

\* raw/fd.rs forget lines 22-24: an empty body; self is dropped at its end
Fd_forget(w, n) == Fd_drop(w, n)

\* raw/fd.rs close lines 27-32: libc::close on the number into_raw returned
Fd_close(w, n) ==
    LET r == Fd_into_raw(w, n)
        c == libc_close(r.w.open, r.raw)
    IN  [w |-> [open |-> c.open, closes |-> r.w.closes + 1],
         result |-> IF c.ret = 0 THEN "Ok" ELSE "EBADF"]

FdOutcome(op, n, w, ret, rawfd) ==
    [t |-> "fd", op |-> op, fd |-> n, closes |-> w.closes,
     result |-> ret, raw |-> rawfd, still_open |-> n \in w.open]

InitFd ==
    /\ ServerStarted
    /\ arg = [open |-> {}, handles |-> {}]
    /\ res = NoMsg

\* a descriptor is opened (the kernel gives the lowest free number) and
\* wrapped: Fd::new, raw/fd.rs lines 9-11
FdNew ==
    /\ FdNums \ arg.open # {}
    /\ LET n == CHOOSE k \in FdNums \ arg.open :
                    \A j \in FdNums \ arg.open : k <= j
       IN  arg' = [open |-> arg.open \cup {n},
                   handles |-> arg.handles \cup {n}]
    /\ UNCHANGED << srv, sigint, res >>
    /\ UNCHANGED lifeVars
    /\ UNCHANGED connVars
    /\ UNCHANGED kernVars

\* one operation that consumes the handle of n
FdOp(n, op) ==
    /\ n \in arg.handles
    /\ LET w == [open |-> arg.open, closes |-> 0]
           after ==
               CASE op = "drop" ->
                        [w |-> Fd_drop(w, n), result |-> "", raw |-> -1]
                 [] op = "forget" ->
                        [w |-> Fd_forget(w, n), result |-> "", raw |-> -1]
                 [] op = "into_raw" ->
                        [w |-> Fd_into_raw(w, n).w, result |-> "",
                         raw |-> Fd_into_raw(w, n).raw]
                 [] op = "close" ->
                        [w |-> Fd_close(w, n).w,
                         result |-> Fd_close(w, n).result, raw |-> -1]
       IN  /\ arg' = [open |-> after.w.open, handles |-> arg.handles \ {n}]
           /\ res' = FdOutcome(op, n, after.w, after.result, after.raw)
    /\ UNCHANGED << srv, sigint >>
    /\ UNCHANGED lifeVars
    /\ UNCHANGED connVars
    /\ UNCHANGED kernVars

NextFd ==
    \/ FdNew
    \/ \E n \in FdNums, op \in FdOps : FdOp(n, op)

SpecFd == InitFd /\ [][NextFd]_vars

\* C29: a handle closes its descriptor exactly once: a drop closes it,
\* close() closes it once and reports the result of that one close, and
\* forget() and into_raw() close nothing, so that the descriptor stays open
\* under the number into_raw() returned.
C29_ClosedExactlyOnce ==
    res # NoMsg =>
        /\ res.op = "drop" => res.closes = 1 /\ ~res.still_open
        /\ res.op = "close" =>
               res.closes = 1 /\ ~res.still_open /\ res.result = "Ok"
        /\ res.op \in {"forget", "into_raw"} =>
               res.closes = 0 /\ res.still_open
        /\ res.op = "into_raw" => res.raw = res.fd

(***************************************************************************)
(* C30.  The value of a Signal datagram (server.rs pass_signal and the     *)
(* Ok(size) arm of handle_child).                                          *)
(* Specification SpecSignal: arg is the i32 a Signal datagram carries, the *)
(* child's group leadership, the kernel's answer to killpg and the build   *)
(* of the server; res is what handling the datagram did.                   *)
(***************************************************************************)
SigvalChoices ==
    {0, 1, SIGTERM, MaxSignal, MaxSignal + 1, 64, 2147483647,
     -1, -SIGTERM, -MaxSignal, -(MaxSignal + 1), -64, MinI32 + 1, MinI32}
\* rustc -C overflow-checks: on in a debug build, off in a release build
Builds == {"overflow-checks", "wrapping"}

\* server.rs pass_signal lines 20-45 under a build: `sigval = -sigval`
\* (line 22) panics on overflow when the checks are compiled in
pass_signal_built(build, pid, sigval, pg_leader, outcome) ==
    IF sigval < 0 /\ sigval = MinI32 /\ build = "overflow-checks"
    THEN [panic |-> TRUE, sent |-> << >>]
    ELSE [panic |-> FALSE,
          sent |-> pass_signal(pid, sigval, pg_leader, outcome)]

\* server.rs handle_child lines 126-131: decode, pass_signal, wait again
on_signal_datagram(in) ==
    LET r == pass_signal_built(in.build, PidOf(1), in.v, in.pg_leader,
                               in.outcome)
    IN  [t |-> "sig", panic |-> r.panic, sent |-> r.sent,
         pc |-> IF r.panic THEN "Panic" ELSE "Running"]

InitSignal ==
    /\ ServerStarted
    /\ arg \in [v : SigvalChoices, pg_leader : BOOLEAN,
                outcome : KillpgOutcomes, build : Builds]
    /\ res = NoMsg

\* the connection task in Running receives the datagram
HandleSignal ==
    /\ res = NoMsg
    /\ res' = on_signal_datagram(arg)
    /\ UNCHANGED << srv, sigint, arg >>
    /\ UNCHANGED lifeVars
    /\ UNCHANGED connVars
    /\ UNCHANGED kernVars

NextSignal == HandleSignal

SpecSignal == InitSignal /\ [][NextSignal]_vars

\* |v| is a signal number
MagnitudeValid(v) == ValidSignal(v) \/ (v > MinI32 /\ ValidSignal(-v))

\* C30: for every i32 value v of a Signal datagram (0, magnitudes that are
\* no signal number and the minimum i32 included) the server handles the
\* datagram without failing: a signal is sent only when |v| is a valid
\* signal number, nothing is sent otherwise, and the connection stays in
\* Running.
C30_EveryValueHandled ==
    res # NoMsg =>
        /\ ~res.panic
        /\ res.pc = "Running"
        /\ MagnitudeValid(arg.v) => res.sent # << >>
        /\ ~MagnitudeValid(arg.v) => res.sent = << >>

(***************************************************************************)
(* C31.  The StartedProcess reply for a failed spawn.                      *)
(***************************************************************************)
\* the spawn errors connection c met, in order
SpawnFailures(c) ==
    LET s == SelectSeq(log[c], LAMBDA x : x.ev = "spawn_failed")
    IN  [i \in 1..Len(s) |-> s[i].e]

\* C31: in the StartedProcess reply for a failed spawn, pid is -1 and errno
\* is the OS error number of the failed spawn, or 0 when the error carries
\* no OS error number.
C31_FailureReply ==
    \A c \in Conns :
        \A i \in SentOfType(c, "StartedProcess") :
            SpawnFailures(c) # << >> =>
                LET m == Sent(c)[i]
                    e == SpawnFailures(c)[1]
                IN  /\ ~m.success
                    /\ m.pid = -1
                    /\ m.errno = IF e.os THEN e.errno ELSE 0

(***************************************************************************)
(* C32.  The signal pump of signals.rs: handlers that write the signal     *)
(* number to a non-blocking pipe, and wait() that reads it back.           *)
(* Specification SpecPump: res is the pump (the bytes in the pipe, the     *)
(* registered handlers, what the handlers wrote and what wait() returned). *)
(***************************************************************************)
MaxPipe == 2
MaxRaised == 3
\* signals.rs line 17: SIGSZ = size_of::<c_int>()
SIGSZ == MSG_SIZE
\* the pipe's capacity in bytes, a multiple of SIGSZ as the kernel's is
PipeCapacity == MaxPipe * SIGSZ
\* signals.rs lines 44-55: every signal but SIGILL (4), SIGFPE (8), SIGKILL,
\* SIGSEGV (11) and SIGSTOP gets the callback
HandledSignals == (1..MaxSignal) \ {4, 8, SIGKILL, 11, SIGSTOP}
RaisedSignals == {SIGINT, SIGTERM, SIGTSTP}

\* signals.rs sig_to_buf lines 19-21 and buf_to_sig lines 23-25
sig_to_buf(val) == I32ToBytes(val)
buf_to_sig(val) == BytesToI32(val)

\* write(2) of n bytes, n <= PIPE_BUF, on a pipe opened O_NONBLOCK
\* (pipe.rs line 43): all of them or EAGAIN
pipe_write(bytes, data) ==
    IF Len(bytes) + Len(data) <= PipeCapacity
    THEN [bytes |-> bytes \o data, ret |-> Len(data)]
    ELSE [bytes |-> bytes, ret |-> -1]

\* signals.rs make_callback lines 27-31: the result of write is dropped
make_callback(bytes, signo) == pipe_write(bytes, sig_to_buf(signo)).bytes

\* a variant of do_poll that reads the newest signal of the pipe
WaitSignal_do_poll_NewestFirst(bytes) ==
    IF bytes = << >>
    THEN [out |-> "Pending", sig |-> 0, bytes |-> bytes]
    ELSE [out |-> "Ok",
          sig |-> buf_to_sig(SubSeq(bytes, Len(bytes) - SIGSZ + 1, Len(bytes))),
          bytes |-> SubSeq(bytes, 1, Len(bytes) - SIGSZ)]

\* signals.rs WaitSignal::do_poll lines 78-90 over pipe.rs poll_read
\* (line 24: read into a buffer of SIGSZ bytes); an empty pipe answers
\* EWOULDBLOCK, which poll_read turns into Pending
WaitSignal_do_poll(bytes) ==
    IF bytes = << >>
    THEN [out |-> "Pending", sig |-> 0, bytes |-> bytes]
    ELSE LET n == IF Len(bytes) < SIGSZ THEN Len(bytes) ELSE SIGSZ
             buf == SubSeq(bytes, 1, n)
             rest == SubSeq(bytes, n + 1, Len(bytes))
         IN  IF n # SIGSZ
             THEN [out |-> "Err", sig |-> 0, bytes |-> rest]
             ELSE IF ValidSignal(buf_to_sig(buf))
                  THEN [out |-> "Ok", sig |-> buf_to_sig(buf), bytes |-> rest]
                  ELSE [out |-> "Err", sig |-> 0, bytes |-> rest]

\* signals.rs SignalHandler::new lines 40-62
PumpNew ==
    [t |-> "pump", alive |-> TRUE, registered |-> HandledSignals,
     bytes |-> << >>, raised |-> << >>, written |-> << >>, got |-> << >>,
     errors |-> 0]

InitPump ==
    /\ ServerStarted
    /\ arg = NoMsg
    /\ res = PumpNew

\* a signal is delivered to the process: the callback runs when one is
\* registered for it
SignalDelivered(sig) ==
    /\ Len(res.raised) < MaxRaised
    /\ LET b == IF sig \in res.registered
                THEN make_callback(res.bytes, sig) ELSE res.bytes
       IN  res' = [res EXCEPT !.raised = Append(@, sig),
                              !.bytes = b,
                              !.written = IF b # res.bytes
                                          THEN Append(@, sig) ELSE @]
    /\ UNCHANGED << srv, sigint, arg >>
    /\ UNCHANGED lifeVars
    /\ UNCHANGED connVars
    /\ UNCHANGED kernVars

\* signals.rs wait lines 64-66 and the poll of the future it returns
WaitPoll ==
    /\ res.alive
    /\ LET r == WaitSignal_do_poll(res.bytes)
       IN  /\ r.out # "Pending"
           /\ res' = [res EXCEPT !.bytes = r.bytes,
                                 !.got = IF r.out = "Ok"
                                         THEN Append(@, r.sig) ELSE @,
                                 !.errors = IF r.out = "Err"
                                            THEN 1 ELSE @]
    /\ UNCHANGED << srv, sigint, arg >>
    /\ UNCHANGED lifeVars
    /\ UNCHANGED connVars
    /\ UNCHANGED kernVars

\* signals.rs Drop for SignalHandler lines 104-110, then the fields: the
\* pipe is closed
PumpDrop ==
    /\ res.alive
    /\ res' = [res EXCEPT !.alive = FALSE, !.registered = {},
                          !.bytes = << >>]
    /\ UNCHANGED << srv, sigint, arg >>
    /\ UNCHANGED lifeVars
    /\ UNCHANGED connVars
    /\ UNCHANGED kernVars

NextPump ==
    \/ \E sig \in RaisedSignals : SignalDelivered(sig)
    \/ WaitPoll
    \/ PumpDrop

SpecPump == InitPump /\ [][NextPump]_vars

\* the signal numbers the bytes of the pipe hold
RECURSIVE InPipe(_)
InPipe(bytes) ==
    IF Len(bytes) < SIGSZ THEN << >>
    ELSE << buf_to_sig(SubSeq(bytes, 1, SIGSZ)) >>
         \o InPipe(SubSeq(bytes, SIGSZ + 1, Len(bytes)))

\* C32: the pump never blocks a handler and never reorders signals: a
\* handler run appends the signal number to the pipe or, the pipe being
\* full, drops it; wait() resolves to the signals written, in the order
\* written, each once; after the pump is dropped none of its handlers is
\* registered.
C32_PumpKeepsOrder ==
    /\ [](res.alive =>
            /\ res.got \o InPipe(res.bytes) = res.written
            /\ res.errors = 0
            /\ \A sig \in RaisedSignals :
                   Len(res.raised) < MaxRaised => ENABLED SignalDelivered(sig))
    /\ [](IsPrefixOf(res.got, res.written))
    /\ [](~res.alive => res.registered = {})
    /\ [][\A sig \in RaisedSignals :
            (res.alive /\ res'.raised = Append(res.raised, sig)) =>
                IF Len(res.bytes) + SIGSZ <= PipeCapacity
                THEN res'.written = Append(res.written, sig)
                ELSE res'.written = res.written /\ res'.bytes = res.bytes]_vars
    /\ [][(~res.alive) => (res'.written = res.written /\ res'.got = res.got)]_vars

\* the pipe was full when a signal came, an earlier and a later signal were
\* read in order
C32_Witness ==
    /\ Len(res.raised) = MaxRaised
    /\ Len(res.written) = 2
    /\ res.got = res.written
    /\ res.written[1] # res.written[2]

(***************************************************************************)
(* C33.  killpg and its fallback (system.rs killpg).                       *)
(***************************************************************************)
IsKillpg(x) == x.ev = "kill" /\ x.op = "killpg"
IsKillToPid(x) == x.ev = "kill" /\ x.op = "kill"

\* C33: whenever the server's killpg to a child's group fails with ESRCH,
\* the server then sends the same signal to the child's pid with kill; for
\* any other killpg error, and when killpg succeeds, nothing further is
\* sent.
C33_EsrchFallsBackToKill ==
    \A c \in Conns :
        \A i \in 1..Len(log[c]) :
            IsKillpg(log[c][i]) =>
                IF log[c][i].r = "ESRCH"
                THEN /\ i < Len(log[c])
                     /\ IsKillToPid(log[c][i + 1])
                     /\ log[c][i + 1].pid = log[c][i].pid
                     /\ log[c][i + 1].sig = log[c][i].sig
                ELSE i < Len(log[c]) => ~IsKillToPid(log[c][i + 1])

\* a connection saw killpg fail with ESRCH and, for another signal, with
\* EPERM
C33_Witness ==
    \E c \in Conns :
        /\ \E i \in 1..Len(log[c]) :
               IsKillpg(log[c][i]) /\ log[c][i].r = "ESRCH"
        /\ \E i \in 1..(Len(log[c]) - 1) :
               IsKillpg(log[c][i]) /\ log[c][i].r = "EPERM"

(***************************************************************************)
(* C34.  A connection that ends while its child runs.                      *)
(***************************************************************************)
\* the task of c saw its child's exit (select resolved Left)
ExitObserved(c) == HasEv(c, "shutdown_read")
\* event i of c is a signal sent because the connection ends, not the relay
\* of a Signal datagram
IsFinalKill(c, i) ==
    /\ IsKill(log[c][i])
    /\ log[c][i].sig \in {params[c].killsig, SIGKILL}
    /\ ~\E j \in 1..(i - 1) :
           /\ log[c][j].ev = "signal"
           /\ \A k \in (j + 1)..(i - 1) : IsKill(log[c][k])

\* C34: no child is left running unattended: on every path by which a
\* connection that has spawned a child ends before the child's exit was
\* observed (client EOF, read error, an undecodable Signal datagram, a failed
\* send of StartedProcess), the server has sent connsig or SIGKILL to the
\* child before the task ends.
C34_NoChildLeftUnattended ==
    \A c \in Conns :
        (ConnectionGone(c) /\ HasEv(c, "spawn") /\ ~ExitObserved(c)) =>
            \E i \in 1..Len(log[c]) : IsFinalKill(c, i)

(***************************************************************************)
(* C35.  The descriptors received with the body (server.rs client_session, *)
(* raw/fdtransfer.rs, child.rs setup_command).                             *)
(* Specification SpecFds: arg is the body datagram (how many descriptors   *)
(* the client attached, whether it decodes, its io flags), what spawn      *)
(* answers and the word size of the build; res is where the descriptors    *)
(* the kernel installed in the server have gone when the connection leaves *)
(* Spawning.                                                               *)
(***************************************************************************)
MaxAttached == 4
WordSizes == {32, 64}
\* <sys/socket.h>: CMSG_ALIGN rounds up to the size of a long; struct cmsghdr
\* is a size_t and two ints
CMSG_ALIGN(n, word) == ((n + (word \div 8) - 1) \div (word \div 8)) * (word \div 8)
CmsgHdr(word) == CMSG_ALIGN((word \div 8) + 8, word)
\* raw/fdtransfer.rs cmsg_space lines 20-24: CMSG_SPACE(4 * num_fds)
cmsg_space(num_fds, word) == CmsgHdr(word) + CMSG_ALIGN(4 * num_fds, word)
\* the descriptors recvmsg installs in the receiver: as many of those sent
\* as the control buffer has room for, the lowest free numbers
scm_rights(attached, controllen, word) ==
    LET room == (controllen - CmsgHdr(word)) \div 4
        n == IF attached < room THEN attached ELSE room
    IN  [i \in 1..n |-> 9 + i]

\* raw/fdtransfer.rs extract_fds lines 26-43: copies into dest until it is
\* full
extract_fds(received, max) ==
    SubSeq(received, 1, IF Len(received) < max THEN Len(received) ELSE max)

StdioFds(cmd) ==
    { x.fd : x \in { y \in {cmd.stdin, cmd.stdout, cmd.stderr} : y.kind = "fd" } }

FdsOutcome(path, installed, stdio, closed) ==
    [t |-> "fds", path |-> path, installed |-> installed,
     child_stdio |-> stdio, closed |-> closed]

\* server.rs client_session lines 168-242, the descriptors only: recvfds into
\* CmsgBuf::new(buffer, fdbuf), decode_request_ref with `?`, setup_command,
\* spawn; the Command and with it the Stdio values are dropped by spawn
recv_body_fds(in) ==
    LET received == scm_rights(in.attached,
                               cmsg_space(FDBUF_LEN, in.word), in.word)
        fds == extract_fds(received, FDBUF_LEN)
        cmd == setup_command(in.io, fds)
    IN  IF ~in.decodes
        THEN FdsOutcome("decode_error", Range(received), {}, {})
        ELSE IF cmd.panic
        THEN FdsOutcome("panic", Range(received), {}, {})
        ELSE FdsOutcome(IF in.spawn_ok THEN "spawned" ELSE "spawn_failed",
                        Range(received),
                        IF in.spawn_ok THEN StdioFds(cmd) ELSE {},
                        StdioFds(cmd) \cup Range(cmd.closed))

InitFds ==
    /\ ServerStarted
    /\ arg \in [attached : 0..MaxAttached, decodes : BOOLEAN, io : IoChoices,
                spawn_ok : BOOLEAN, word : WordSizes]
    /\ res = NoMsg

\* the connection in Spawning receives the body datagram
RecvBodyFds ==
    /\ res = NoMsg
    /\ res' = recv_body_fds(arg)
    /\ UNCHANGED << srv, sigint, arg >>
    /\ UNCHANGED lifeVars
    /\ UNCHANGED connVars
    /\ UNCHANGED kernVars

NextFds == RecvBodyFds

SpecFds == InitFds /\ [][NextFds]_vars

\* C35: every descriptor the server receives over SCM_RIGHTS is, on every
\* path of the connection (successful spawn, failed spawn, a body that fails
\* to decode), either installed as the child's stdio or closed in the server
\* by the time the connection leaves Spawning; none stays open in the
\* server.
C35_NoDescriptorStaysOpen ==
    (res # NoMsg /\ res.path # "panic") =>
        /\ res.installed \subseteq res.closed
        /\ res.path # "spawned" => res.child_stdio = {}

(***************************************************************************)
(* C36.  Signals to a pid and the reaping of that pid.                     *)
(***************************************************************************)
\* the signals sent for connection c so far
KillsOf(c) == SelectSeq(log[c], IsKill)

\* C36: the server never sends a signal (relayed client signal, connsig or
\* SIGKILL) to a pid after the watcher has reaped that pid: once waitpid has
\* returned the child's pid, the connection's next step observes the exit
\* notification and does not signal the pid.
C36_NoSignalAfterReap ==
    [][\A c \in Conns :
          (proc[c].st = "reaped") => (KillsOf(c)' = KillsOf(c))]_vars

(***************************************************************************)
(* C37.  A child that terminates between fork and registration            *)
(* (child_watcher.rs spawn, register, listen; runtime.rs).                 *)
(* Specification SpecSpawn: spawn is two steps, command.spawn() and        *)
(* Child::from_id; arg is the task the executor is polling (0: none).      *)
(***************************************************************************)
\* a variant of executor_polls for an executor that polls tasks on several
\* threads
executor_polls_ThreadPool(polling) == TRUE

\* runtime.rs lines 13-55: CurrentThread polls one task at a time, on one
\* thread, each until it returns Pending
executor_polls(polling) == polling = 0

\* child_watcher.rs spawn line 123: command.spawn(); the child exists, its
\* pid is not yet in the table
CommandSpawn(c) ==
    /\ srv = "running"
    /\ executor_polls(arg)
    /\ pc[c] = "Unborn"
    /\ proc[c].st = "none"
    /\ proc' = [proc EXCEPT ![c] = [st |-> "running", status |-> 0]]
    /\ arg' = c
    /\ Goto(c, "Forked", << >>)
    /\ UNCHANGED << srv, sigint, cphase, inbox, nsent, params, pending, res >>
    /\ UNCHANGED << storage, pipe, ready, sigchld >>
    /\ UNCHANGED lifeVars

\* child_watcher.rs spawn line 124, Child::from_id lines 64-69 and
\* Watchers::register lines 42-48; the task then goes on to its next wait
FromId(c) ==
    /\ srv = "running"
    /\ arg = c
    /\ pc[c] = "Forked"
    /\ storage' = storage \cup { PidOf(c) }
    /\ arg' = 0
    /\ Goto(c, "Running",
            IF proc[c].st = "running" THEN << Ev("spawn") >>
            ELSE << Ev("spawn"), Ev("registered_late") >>)
    /\ UNCHANGED << srv, sigint, cphase, inbox, nsent, params, pending, res >>
    /\ UNCHANGED << proc, pipe, ready, sigchld >>
    /\ UNCHANGED lifeVars

\* the executor polls the listen task of child_watcher.rs
DrainTask == executor_polls(arg) /\ WatcherDrain

\* the executor parks in the reactor, then polls the task of c
ParkAndObserve(c) == executor_polls(arg) /\ ReactorObserve(c)
ChildTask(c) == executor_polls(arg) /\ ChildReady(c)

NextSpawn ==
    \/ \E c \in Conns : CommandSpawn(c)
    \/ \E c \in Conns : FromId(c)
    \/ \E c \in Conns : ChildTerminate(c)
    \/ DrainTask
    \/ \E c \in Conns : ParkAndObserve(c)
    \/ \E c \in Conns : ChildTask(c)

SpecSpawn == Init /\ [][NextSpawn]_vars

\* C37: a child that terminates right after being spawned, even before its
\* pid is in the watcher's table, still has its wait-status delivered to its
\* connection: the drain never reaps a pid whose entry is not yet present.
C37_NoReapBeforeRegistration ==
    \A c \in Conns :
        /\ proc[c].st = "reaped" => pc[c] # "Forked"
        /\ proc[c].st = "reaped" =>
               \/ pipe[c] = I32ToBytes(proc[c].status)
               \/ \E i \in 1..Len(log[c]) :
                      log[c][i].ev = "status" /\ log[c][i].v = proc[c].status
        /\ PidOf(c) \in storage => proc[c].st \in {"running", "zombie"}

\* a child was a zombie before its pid was registered, and its task has read
\* its status
C37_Witness ==
    \E c \in Conns :
        /\ HasEv(c, "registered_late")
        /\ HasEv(c, "status")
        /\ proc[c].status # 0

(***************************************************************************)
(* C38.  The wait for the body datagram (raw/fdtransfer.rs RecvFds over    *)
(* raw/reactor.rs).                                                        *)
(* Specification SpecBody: every connection has received the Exec header   *)
(* and awaits sock.recvfds; arg is the poller the reactor is built on; res *)
(* holds, per connection, the socket's queue, the events the kernel has    *)
(* raised and the reactor not yet taken, the readiness the reactor knows,  *)
(* and the state of the task.                                              *)
(***************************************************************************)
\* mio: epoll on Linux, kqueue on the BSDs and macOS (the source builds for
\* both: pipe.rs 39-56, raw/fdtransfer.rs 13-17)
Pollers == {"epoll", "kqueue"}

\* the readiness the reactor call of an operation waits for and clears:
\* raw/ops.rs, raw/accept.rs, raw/fdtransfer.rs lines 62 and 102
poll_direction(op) ==
    CASE op \in {"read", "recv", "accept"} -> "readable"
      [] op \in {"write", "send", "sendmsg"} -> "writable"
      [] op = "recvmsg" -> "writable"

\* what the poller reports for a registration of both interests, edge
\* triggered, when a datagram arrives on a socket that is writable: epoll
\* reports every condition that holds, kqueue the filter that fired
arrival_events(poller) ==
    IF poller = "epoll" THEN {"readable", "writable"} ELSE {"readable"}

BodyWait ==
    [queue |-> 0, sent |-> FALSE, events |-> {"writable"},
     rready |-> FALSE, wready |-> FALSE, woken |-> TRUE, parked |-> "",
     received |-> FALSE, empty_polls |-> 0]

InitBody ==
    /\ ServerStarted
    /\ arg \in Pollers
    /\ res = [c \in Conns |-> BodyWait]

\* the client sends the body datagram
BodyArrives(c) ==
    /\ ~res[c].sent
    /\ res' = [res EXCEPT ![c].queue = 1, ![c].sent = TRUE,
                          ![c].events = @ \cup arrival_events(arg)]
    /\ UNCHANGED << srv, sigint, arg >>
    /\ UNCHANGED lifeVars
    /\ UNCHANGED connVars
    /\ UNCHANGED kernVars

\* the executor parks: the reactor takes the events, records the readiness
\* and wakes the task parked on one of them
ReactorTurn(c) ==
    /\ res[c].events # {}
    /\ res' = [res EXCEPT
                 ![c].events = {},
                 ![c].rready = @ \/ "readable" \in res[c].events,
                 ![c].wready = @ \/ "writable" \in res[c].events,
                 ![c].woken = @ \/ res[c].parked \in res[c].events]
    /\ UNCHANGED << srv, sigint, arg >>
    /\ UNCHANGED lifeVars
    /\ UNCHANGED connVars
    /\ UNCHANGED kernVars

\* server.rs client_session lines 174-176: the task is polled in
\* sock.recvfds(..).await, RecvFds::do_poll (raw/fdtransfer.rs 95-113)
RecvfdsPoll(c) ==
    /\ res[c].woken
    /\ ~res[c].received
    /\ LET b == res[c]
           r == do_poll([op |-> "recvmsg",
                         answers |-> << IF b.queue > 0 THEN "Ok"
                                        ELSE "EWOULDBLOCK" >>,
                         rready |-> b.rready, wready |-> b.wready])
       IN  res' = [res EXCEPT
                     ![c].rready = r.rready,
                     ![c].wready = r.wready,
                     ![c].woken = FALSE,
                     ![c].queue = IF r.out = "Ok" THEN 0 ELSE @,
                     ![c].received = r.out = "Ok",
                     ![c].parked = IF r.out = "Pending"
                                   THEN poll_direction("recvmsg") ELSE "",
                     ![c].empty_polls = IF r.calls = 1 /\ r.out = "Pending"
                                        THEN 1 ELSE @]
    /\ UNCHANGED << srv, sigint, arg >>
    /\ UNCHANGED lifeVars
    /\ UNCHANGED connVars
    /\ UNCHANGED kernVars

NextBody ==
    \/ \E c \in Conns : BodyArrives(c)
    \/ \E c \in Conns : ReactorTurn(c)
    \/ \E c \in Conns : RecvfdsPoll(c)

\* the executor polls a woken task and parks when none is woken; nothing
\* obliges the client to send
SpecBody ==
    /\ InitBody
    /\ [][NextBody]_vars
    /\ \A c \in Conns : WF_vars(ReactorTurn(c)) /\ WF_vars(RecvfdsPoll(c))

\* C38: a connection that waits for the body datagram is woken and receives
\* the body once the client sends it, also when the body arrives after the
\* server's first receive attempt found nothing: the wait of recvfds never
\* misses the arrival of a datagram.
C38_BodyArrivalWakes ==
    \A c \in Conns : res[c].sent ~> res[c].received

(***************************************************************************)
(* C39.  Several server processes started on one socket path (server.rs    *)
(* command, raw/blocking.rs bind).                                         *)
(* Specification SpecBind: arg is the position of each server process in   *)
(* command; res is the path: the process whose bind created the file there *)
(* (0: no file) and the removals made so far.                              *)
(***************************************************************************)
MaxServers == 4
Servers == 1..MaxServers

\* a variant of bind that unlinks what is at the path before binding
blocking_bind_UnlinksFirst(file, p, listen_ok) ==
    [file |-> p, ok |-> listen_ok, errno |-> IF listen_ok THEN "" ELSE "listen"]

\* raw/blocking.rs bind lines 35-42: bind(2) fails with EADDRINUSE when the
\* path exists and creates the socket file otherwise; listen(2) and
\* set_nonblock follow, each returning its error with `?`
blocking_bind(file, p, listen_ok) ==
    IF file # 0
    THEN [file |-> file, ok |-> FALSE, errno |-> "EADDRINUSE"]
    ELSE [file |-> p, ok |-> listen_ok,
          errno |-> IF listen_ok THEN "" ELSE "listen"]

\* std::fs::remove_file of the deferred block, server.rs lines 300-305: the
\* file at the path is unlinked, whoever created it
remove_file(path, p) ==
    IF path.file = 0 THEN path
    ELSE [path EXCEPT !.file = 0,
                      !.removed = Append(@, [by |-> p, owner |-> path.file])]

InitBind ==
    /\ ServerStarted
    /\ arg = [p \in Servers |-> "start"]
    /\ res = [t |-> "path", file |-> 0, removed |-> << >>]

\* server.rs command line 299: `let fd = bind(args.server)?;` and, when it
\* succeeded, the registration of the deferred removal
CommandBind(p) ==
    /\ arg[p] = "start"
    /\ \E listen_ok \in BOOLEAN :
         LET r == blocking_bind(res.file, p, listen_ok)
         IN  /\ res' = [res EXCEPT !.file = r.file]
             /\ arg' = [arg EXCEPT ![p] = IF r.ok THEN "bound"
                                          ELSE IF r.errno = "EADDRINUSE"
                                          THEN "failed_bind"
                                          ELSE "failed_listen"]
    /\ UNCHANGED << srv, sigint >>
    /\ UNCHANGED lifeVars
    /\ UNCHANGED connVars
    /\ UNCHANGED kernVars

\* server.rs command lines 308-340: block_on returns (a signal, Stop, an
\* error) or unwinds; the deferred block runs
CommandExit(p) ==
    /\ arg[p] = "bound"
    /\ res' = remove_file(res, p)
    /\ arg' = [arg EXCEPT ![p] = "exited"]
    /\ UNCHANGED << srv, sigint >>
    /\ UNCHANGED lifeVars
    /\ UNCHANGED connVars
    /\ UNCHANGED kernVars

NextBind ==
    \/ \E p \in Servers : CommandBind(p)
    \/ \E p \in Servers : CommandExit(p)

SpecBind == InitBind /\ [][NextBind]_vars

\* C39: starting a server on a path where another server is already bound
\* fails at bind and leaves the existing socket file in place; the socket
\* file is removed only by the server process that bound it successfully.
C39_SecondServerFailsAtBind ==
    /\ [][\A p \in Servers :
            (arg[p] = "start" /\ arg'[p] # "start" /\ res.file # 0) =>
                (arg'[p] = "failed_bind" /\ res' = res)]_vars
    /\ [](\A i \in 1..Len(res.removed) :
            res.removed[i].by = res.removed[i].owner)
    /\ [](\A p \in Servers :
            arg[p] \in {"failed_bind", "failed_listen"} =>
                \A i \in 1..Len(res.removed) : res.removed[i].by # p)

\* a server failed at bind beside a running one, whose file is still there,
\* after an earlier server had removed its own
C39_Witness ==
    \E p, q \in Servers :
        /\ arg[p] = "failed_bind"
        /\ arg[q] = "bound"
        /\ res.file = q
        /\ Len(res.removed) = 1

(***************************************************************************)
(* C40.  One datagram per signal (net/framed.rs start_send, poll_complete; *)
(* client.rs wait_child), on SpecRelay.                                    *)
(***************************************************************************)
\* the signals taken from the pump that are still on their way: the item
\* Forward holds back and the items encoded in the write buffer
InFlight ==
    res.write \o (IF res.buffered # 0 THEN << res.buffered >> ELSE << >>)

\* C40: every signal the client takes from its signal stream is sent to the
\* server as exactly one Signal datagram, in the order taken: when a new
\* signal arrives while the previous one is unflushed, the previous datagram
\* is sent first, and two signals are never merged into one datagram or
\* dropped.
C40_OneDatagramPerSignal ==
    /\ \A k \in 1..Len(RelaySends) : RelaySends[k].n = 1
    /\ Len(res.write) <= 1
    /\ Len(RelaySends) + Len(InFlight) = res.polled
    /\ \A k \in 1..res.polled :
           (IF k <= Len(RelaySends) THEN RelaySends[k].v
            ELSE InFlight[k - Len(RelaySends)])
               = convert_to_group_signals(arg[k])

\* a second signal was taken while the datagram of the first was unflushed:
\* it is held back
C40_Witness ==
    /\ res.buffered # 0
    /\ ~res.flushed
    /\ Len(res.write) = 1
    /\ res.write[1] # res.buffered

====
